---- MODULE Spec2Model ----
(***************************************************************************)
(* A model of src/zigx/build.py, the ZigX build backend: the Zig-to-ctypes *)
(* type mapper, the export scanner, the generator of the loader module,    *)
(* the loader module it generates, and the wheel builder.                  *)
(*                                                                         *)
(* Text is a sequence of atoms.  An atom is a string: one character where  *)
(* the code looks at characters (type spellings, white space, separators), *)
(* a whole word where the code never looks inside it (export, add, one).   *)
(***************************************************************************)
EXTENDS Integers, Sequences, FiniteSets, TLC

VARIABLES
    typeIn,         \* parse_zig_type: the argument zig_type
    typeOut,        \* parse_zig_type: the value returned ("unset" before the call)
    srcLines,       \* parse_zig_exports: the lines the source text is made of
    parsed,         \* parse_zig_exports: the list returned
    parseDone,      \* parse_zig_exports: whether the call has returned
    files,          \* scan_zig_sources: the files src_dir.rglob("*.zig") yields, in order
    scanIdx,        \* scan_zig_sources: how many of them the loop has been through
    all_functions,  \* scan_zig_sources: all_functions
    scanPc,         \* scan_zig_sources: "loop", "returned" or "raised"
    functions,      \* generate_init_py: the argument functions
    gil_release,    \* generate_init_py: the argument gil_release
    genLines,       \* generate_init_py: lines, the text returned
    genDone,        \* generate_init_py: whether the call has returned
    pcL,            \* generated module: "import" while it is being imported, then "ready"
    lib,            \* generated module: _lib, 0 for None, else the CDLL object
    loadLog,        \* generated module: the outcome of every load attempted
    importRaised,   \* generated module: whether importing it raised
    calls,          \* generated module: how many wrapper calls have been made
    lastCall,       \* generated module: how the last wrapper call ended
    pc,             \* build_wheel_impl: the statement it is at
    editable,       \* build_wheel_impl: the argument editable
    host,           \* the host: sys.platform
    project_dir,    \* build_wheel_impl: the argument project_dir
    config,         \* build_wheel_impl: what pyproject.toml configures
    tempAcquired,   \* build_wheel_impl: whether TemporaryDirectory() was entered
    tempExists,     \* the file system: whether the temporary directory exists
    tree,           \* the file system: what is under the temporary directory
    record_content, \* build_wheel_impl: record_content
    archiveOpened,  \* the file system: whether wheel_path was opened for writing
    archive,        \* the file system: the members of the archive at wheel_path
    zipTodo,        \* build_wheel_impl: what temp_path.rglob("*") has yet to yield
    compilerRuns,   \* how many times compile_zig was called
    scannerRuns,    \* how many times scan_zig_sources was called
    error,          \* build_wheel_impl: what it raised, "none" if nothing
    wFunc,          \* generated wrapper: the ZigFunction it was generated from
    wGil,           \* generated wrapper: the gil_release it was generated with
    wBody,          \* generated wrapper: the statements of its body yet to run
    wScope,         \* generated wrapper: how many with blocks of _release_gil the call is inside
    wTrace,         \* generated wrapper: what has happened during the call, in order
    wNative,        \* the native function: whether it "returns" or "raises" when called
    wPc,            \* generated wrapper: "run", "unwind", "returned" or "raised"
    cEnv,           \* compile_zig: what it finds (compiler, sources, what the compiler process does)
    cModule,        \* compile_zig: the argument module_name
    cHost,          \* compile_zig: sys.platform
    cResult,        \* compile_zig: how the call ended ("unset" before it)
    cPath,          \* compile_zig: the path returned, <<>> if none
    pSystem,        \* get_platform_tag: what platform.system() returns
    pMachine,       \* get_platform_tag: what platform.machine() returns
    pTag,           \* get_platform_tag: the tag returned, <<>> before the call
    metadata,       \* create_wheel_metadata: the argument metadata
    metaOut,        \* create_wheel_metadata: the METADATA text returned, <<>> before the call
    tLib,           \* generated module, with threads: _lib, 0 for None, else the CDLL object
    tLog,           \* generated module, with threads: the outcome of every load attempted
    tPc,            \* generated module, with threads: where in _load_library each thread is
    tObj,           \* generated module, with threads: the CDLL object each thread has made and not yet stored
    tRet            \* generated module, with threads: what _load_library returned to each thread

typeVars  == <<typeIn, typeOut>>
parseVars == <<srcLines, parsed, parseDone>>
scanVars  == <<files, scanIdx, all_functions, scanPc>>
genVars   == <<functions, gil_release, genLines, genDone>>
loadVars  == <<pcL, lib, loadLog, importRaised, calls, lastCall>>
buildVars ==
    <<pc, editable, host, project_dir, config, tempAcquired, tempExists, tree,
      record_content, archiveOpened, archive, zipTodo, compilerRuns, scannerRuns,
      error>>
callVars == <<wFunc, wGil, wBody, wScope, wTrace, wNative, wPc>>
compileVars == <<cEnv, cModule, cHost, cResult, cPath>>
platformVars == <<pSystem, pMachine, pTag>>
metaVars == <<metadata, metaOut>>
threadVars == <<tLib, tLog, tPc, tObj, tRet>>
vars      ==
    <<typeVars, parseVars, scanVars, genVars, loadVars, buildVars, callVars, compileVars, platformVars, metaVars, threadVars>>

\* The variables an operation of one part leaves alone: those of the others.
notType ==
    <<parseVars, scanVars, genVars, loadVars, buildVars, callVars, compileVars, platformVars, metaVars, threadVars>>
notParse ==
    <<typeVars, scanVars, genVars, loadVars, buildVars, callVars, compileVars, platformVars, metaVars, threadVars>>
notScan ==
    <<typeVars, parseVars, genVars, loadVars, buildVars, callVars, compileVars, platformVars, metaVars, threadVars>>
notGen ==
    <<typeVars, parseVars, scanVars, loadVars, buildVars, callVars, compileVars, platformVars, metaVars, threadVars>>
notLoad ==
    <<typeVars, parseVars, scanVars, genVars, buildVars, callVars, compileVars, platformVars, metaVars, threadVars>>
notBuild ==
    <<typeVars, parseVars, scanVars, genVars, loadVars, callVars, compileVars, platformVars, metaVars, threadVars>>
notCall ==
    <<typeVars, parseVars, scanVars, genVars, loadVars, buildVars, compileVars, platformVars, metaVars, threadVars>>
notCompile ==
    <<typeVars, parseVars, scanVars, genVars, loadVars, buildVars, callVars, platformVars, metaVars, threadVars>>
notPlatform ==
    <<typeVars, parseVars, scanVars, genVars, loadVars, buildVars, callVars, compileVars, metaVars, threadVars>>
notMeta ==
    <<typeVars, parseVars, scanVars, genVars, loadVars, buildVars, callVars, compileVars, platformVars, threadVars>>
notThread ==
    <<typeVars, parseVars, scanVars, genVars, loadVars, buildVars, callVars, compileVars, platformVars, metaVars>>

(***************************************************************************)
(* Bounds of the model.                                                    *)
(***************************************************************************)
MaxTypeLen == 4     \* longest type spelling handed to parse_zig_type
MaxLines   == 3     \* most lines of a source text handed to parse_zig_exports
MaxFiles   == 3     \* most *.zig files under the source directory
MaxFuncs   == 3     \* most ZigFunction records handed to generate_init_py
MaxCalls   == 4     \* most wrapper calls made on the generated module
MaxSources == 2     \* most *.zig files directly in the source directory
MaxAuthors == 2     \* most authors of a project
MaxEntries == 2     \* most classifiers, and most dependencies, of a project
MaxThreads == 2     \* most threads that call into the generated module

(***************************************************************************)
(* A part of the program that a specification does not run stays idle.     *)
(***************************************************************************)
TypeIdle  == typeIn = <<>> /\ typeOut = "unset"
ParseIdle == srcLines = <<>> /\ parsed = <<>> /\ parseDone = FALSE
ScanIdle  == files = <<>> /\ scanIdx = 0 /\ all_functions = <<>> /\ scanPc = "idle"
GenIdle   == functions = <<>> /\ gil_release = TRUE /\ genLines = <<>> /\ genDone = FALSE
LoadIdle  ==
    /\ pcL = "idle" /\ lib = 0 /\ loadLog = <<>> /\ importRaised = FALSE
    /\ calls = 0 /\ lastCall = "none"
BuildIdle ==
    /\ pc = "idle" /\ editable = FALSE /\ host = "linux" /\ project_dir = <<>>
    /\ config = <<>> /\ tempAcquired = FALSE /\ tempExists = FALSE /\ tree = <<>>
    /\ record_content = <<>> /\ archiveOpened = FALSE /\ archive = <<>>
    /\ zipTodo = <<>> /\ compilerRuns = 0 /\ scannerRuns = 0 /\ error = "none"
CallIdle == wFunc = <<>> /\ wGil = TRUE /\ wBody = <<>> /\ wScope = 0 /\ wTrace = <<>> /\ wNative = "idle" /\ wPc = "idle"
\* compile_zig has not been called.
NotCalled == [outcome |-> "unset", ran |-> FALSE, main_file |-> <<>>, message |-> <<>>]

CompileIdle == cEnv = <<>> /\ cModule = <<>> /\ cHost = "linux" /\ cResult = NotCalled /\ cPath = <<>>
PlatformIdle == pSystem = "" /\ pMachine = "" /\ pTag = <<>>
MetaIdle == metadata = <<>> /\ metaOut = <<>>
ThreadIdle == tLib = 0 /\ tLog = <<>> /\ tPc = <<>> /\ tObj = <<>> /\ tRet = <<>>

(***************************************************************************)
(* Text helpers: str.strip, str.startswith, slicing.                       *)
(***************************************************************************)
Whitespace == {" ", "\n", "\t"}

RECURSIVE LStrip(_)
LStrip(s) ==
    IF s # <<>> /\ Head(s) \in Whitespace THEN LStrip(Tail(s)) ELSE s

RECURSIVE RStrip(_)
RStrip(s) ==
    IF s # <<>> /\ s[Len(s)] \in Whitespace
    THEN RStrip(SubSeq(s, 1, Len(s) - 1))
    ELSE s

Strip(s) == RStrip(LStrip(s))

StartsWith(s, p) == Len(s) >= Len(p) /\ SubSeq(s, 1, Len(p)) = p

RECURSIVE SeqsUpTo(_, _)
SeqsUpTo(S, n) ==
    IF n = 0 THEN {<<>>}
    ELSE LET shorter == SeqsUpTo(S, n - 1)
         IN  shorter \cup {Append(s, x) : s \in shorter, x \in S}

(***************************************************************************)
(* The type mapper.                                                        *)
(***************************************************************************)
ZIG_TO_CTYPES ==
    (<<"i", "8">> :> "ctypes.c_int8")
    @@ (<<"i", "1", "6">> :> "ctypes.c_int16")
    @@ (<<"i", "3", "2">> :> "ctypes.c_int32")
    @@ (<<"i", "6", "4">> :> "ctypes.c_int64")
    @@ (<<"u", "8">> :> "ctypes.c_uint8")
    @@ (<<"u", "1", "6">> :> "ctypes.c_uint16")
    @@ (<<"u", "3", "2">> :> "ctypes.c_uint32")
    @@ (<<"u", "6", "4">> :> "ctypes.c_uint64")
    @@ (<<"f", "1", "6">> :> "ctypes.c_float")
    @@ (<<"f", "3", "2">> :> "ctypes.c_float")
    @@ (<<"f", "6", "4">> :> "ctypes.c_double")
    @@ (<<"b", "o", "o", "l">> :> "ctypes.c_bool")
    @@ (<<"c", "_", "i", "n", "t">> :> "ctypes.c_int")
    @@ (<<"c", "_", "u", "i", "n", "t">> :> "ctypes.c_uint")
    @@ (<<"c", "_", "l", "o", "n", "g">> :> "ctypes.c_long")
    @@ (<<"c", "_", "u", "l", "o", "n", "g">> :> "ctypes.c_ulong")
    @@ (<<"c", "_", "l", "o", "n", "g", "l", "o", "n", "g">> :> "ctypes.c_longlong")
    @@ (<<"c", "_", "u", "l", "o", "n", "g", "l", "o", "n", "g">> :> "ctypes.c_ulonglong")
    @@ (<<"c", "_", "c", "h", "a", "r">> :> "ctypes.c_char")
    @@ (<<"c", "_", "s", "h", "o", "r", "t">> :> "ctypes.c_short")
    @@ (<<"c", "_", "u", "s", "h", "o", "r", "t">> :> "ctypes.c_ushort")
    @@ (<<"u", "s", "i", "z", "e">> :> "ctypes.c_size_t")
    @@ (<<"i", "s", "i", "z", "e">> :> "ctypes.c_ssize_t")
    @@ (<<"v", "o", "i", "d">> :> "None")
    @@ (<<"[", "*", "c", "]", "c", "o", "n", "s", "t", " ", "u", "8">> :> "ctypes.c_char_p")
    @@ (<<"[", "*", "c", "]", "u", "8">> :> "ctypes.c_char_p")
    @@ (<<"*", "c", "o", "n", "s", "t", " ", "u", "8">> :> "ctypes.c_char_p")
    @@ (<<"*", "u", "8">> :> "ctypes.c_char_p")
    @@ (<<"[", "*", "]", "c", "o", "n", "s", "t", " ", "u", "8">> :> "ctypes.c_char_p")
    @@ (<<"[", "*", "]", "u", "8">> :> "ctypes.c_char_p")

\* The descriptors a call can return: the table's values and the fallback.
Descriptors == {ZIG_TO_CTYPES[k] : k \in DOMAIN ZIG_TO_CTYPES} \cup {"ctypes.c_void_p"}

PointerShaped(s) == StartsWith(s, <<"*">>) \/ StartsWith(s, <<"[", "*">>)

\* A plausible slip: the optional branch maps the unwrapped inner spelling.
parse_zig_type_maps_inner(zig_type) ==
    LET t == Strip(zig_type)
        inner == Strip(Tail(t))
    IN  IF t \in DOMAIN ZIG_TO_CTYPES THEN ZIG_TO_CTYPES[t]
        ELSE IF PointerShaped(t) THEN "ctypes.c_void_p"
        ELSE IF StartsWith(t, <<"?">>) /\ ~PointerShaped(inner)
                /\ inner \in DOMAIN ZIG_TO_CTYPES
        THEN ZIG_TO_CTYPES[inner]
        ELSE "ctypes.c_void_p"

\* A plausible slip: the table is consulted before the spelling is stripped.
parse_zig_type_no_strip(zig_type) ==
    IF zig_type \in DOMAIN ZIG_TO_CTYPES THEN ZIG_TO_CTYPES[zig_type]
    ELSE "ctypes.c_void_p"

parse_zig_type(zig_type) ==
    LET t == Strip(zig_type)
    IN  IF t \in DOMAIN ZIG_TO_CTYPES THEN ZIG_TO_CTYPES[t]
        ELSE IF PointerShaped(t) THEN "ctypes.c_void_p"
        ELSE IF StartsWith(t, <<"?">>)
        THEN LET inner == Strip(Tail(t))
             IN  IF PointerShaped(inner) THEN "ctypes.c_void_p"
                 ELSE "ctypes.c_void_p"
        ELSE "ctypes.c_void_p"

\* The characters the type spellings of the model are made of.
TypeChars == {" ", "?", "*", "[", "u", "8", "i", "3", "2"}

TypeSpellings == SeqsUpTo(TypeChars, MaxTypeLen)

\* One call parse_zig_type(typeIn).
CallParseZigType ==
    /\ typeOut = "unset"
    /\ typeOut' = parse_zig_type(typeIn)
    /\ UNCHANGED <<typeIn, notType>>

(***************************************************************************)
(* The export scanner: parse_zig_exports.                                  *)
(*                                                                         *)
(* export_pattern is matched on the atoms of the text: a run of doc-comment *)
(* lines, white space, an optional pub, export fn, the name, the           *)
(* parenthesised parameters, the return type and the opening brace.        *)
(***************************************************************************)
Punctuation ==
    {"(", ")", "{", "}", ",", ":", ";", "=", "/", "//", "///", "...", "*", "?", "[", "]"}

\* A character of a word.
IsWord(a) == a \notin Whitespace /\ a \notin Punctuation

At(s, p) == IF p >= 1 /\ p <= Len(s) THEN s[p] ELSE "<eof>"

\* White space: the position after the white space that starts at p.
RECURSIVE SkipWS(_, _)
SkipWS(s, p) == IF At(s, p) \in Whitespace THEN SkipWS(s, p + 1) ELSE p

\* A word: the position after the run of word characters that starts at p.
RECURSIVE SkipWord(_, _)
SkipWord(s, p) == IF p <= Len(s) /\ IsWord(s[p]) THEN SkipWord(s, p + 1) ELSE p

\* The position of the first atom a at or after p, 0 when there is none.
RECURSIVE Find(_, _, _)
Find(s, a, p) ==
    IF p > Len(s) THEN 0 ELSE IF s[p] = a THEN p ELSE Find(s, a, p + 1)

\* The doc group: the position after the doc-comment lines that start at p.
\* Each repetition starts with /// right where the last one ended.
RECURSIVE DocEnd(_, _)
DocEnd(s, p) ==
    IF At(s, p) = "///" /\ Find(s, "\n", p + 1) # 0
    THEN DocEnd(s, Find(s, "\n", p + 1) + 1)
    ELSE p

NoMatch == [ok |-> FALSE, doc |-> <<>>, name |-> <<>>, params |-> <<>>,
            return |-> <<>>, end |-> 0]

\* export_pattern matched with its first character at p.
MatchAt(s, p) ==
    LET d  == DocEnd(s, p)
        w  == SkipWS(s, d)
        q  == IF At(s, w) = "pub" /\ At(s, w + 1) \in Whitespace
              THEN SkipWS(s, w + 1) ELSE w
        r  == SkipWS(s, q + 1)
        n  == SkipWS(s, r + 1)
        e  == SkipWord(s, n)
        o  == SkipWS(s, e)
        c  == Find(s, ")", o + 1)
        b  == Find(s, "{", c + 1)
    IN  IF /\ At(s, q) = "export" /\ At(s, q + 1) \in Whitespace
           /\ At(s, r) = "fn" /\ At(s, r + 1) \in Whitespace
           /\ e > n
           /\ At(s, o) = "("
           /\ c # 0
           /\ b # 0 /\ b > c + 1
        THEN [ok |-> TRUE,
              doc |-> SubSeq(s, p, d - 1),
              name |-> SubSeq(s, n, e - 1),
              params |-> SubSeq(s, o + 1, c - 1),
              return |-> SubSeq(s, c + 1, b - 1),
              end |-> b]
        ELSE NoMatch

\* export_pattern.finditer: the matches, leftmost first, none overlapping.
RECURSIVE FindIter(_, _)
FindIter(s, p) ==
    IF p > Len(s) THEN <<>>
    ELSE LET m == MatchAt(s, p)
         IN  IF m.ok THEN <<m>> \o FindIter(s, m.end + 1)
             ELSE FindIter(s, p + 1)

\* str.split(sep): the pieces of s between the atoms sep.
RECURSIVE Split(_, _)
Split(s, sep) ==
    LET k == Find(s, sep, 1)
    IN  IF k = 0 THEN <<s>>
        ELSE <<SubSeq(s, 1, k - 1)>> \o Split(SubSeq(s, k + 1, Len(s)), sep)

\* sep.join(parts).
RECURSIVE Join(_, _)
Join(parts, sep) ==
    IF parts = <<>> THEN <<>>
    ELSE IF Len(parts) = 1 THEN parts[1]
    ELSE parts[1] \o <<sep>> \o Join(Tail(parts), sep)

\* line.lstrip("/").
RECURSIVE LStripSlash(_)
LStripSlash(s) ==
    IF s # <<>> /\ Head(s) \in {"/", "//", "///"} THEN LStripSlash(Tail(s)) ELSE s

\* Lines 275-281: the doc text of a match.
DocText(docGroup) ==
    LET doc_lines == Strip(docGroup)
        IsDoc(line) == StartsWith(Strip(line), <<"///">>)
        Clean(line) == Strip(LStripSlash(line))
    IN  IF doc_lines = <<>> THEN <<>>
        ELSE LET kept == SelectSeq(Split(doc_lines, "\n"), IsDoc)
             IN  Join([i \in 1..Len(kept) |-> Clean(kept[i])], "\n")

\* Lines 284-300: the parameters of a match.
ParamList(paramsGroup) ==
    LET params_str == Strip(paramsGroup)
        Kept(raw) ==
            LET param == Strip(raw)
            IN  /\ param # <<>>
                /\ param # <<"...">>
                /\ ~StartsWith(param, <<"comptime">>)
                /\ Find(param, ":", 1) # 0
        Pair(raw) ==
            LET param == Strip(raw)
                k == Find(param, ":", 1)
            IN  <<Strip(SubSeq(param, 1, k - 1)),
                  Strip(SubSeq(param, k + 1, Len(param)))>>
    IN  IF params_str = <<>> THEN <<>>
        ELSE LET kept == SelectSeq(Split(params_str, ","), Kept)
             IN  [i \in 1..Len(kept) |-> Pair(kept[i])]

\* Lines 302-310: the ZigFunction made of a match.
ZigFunction(m) ==
    [name |-> m.name,
     return_type |-> Strip(m.return),
     params |-> ParamList(m.params),
     doc |-> DocText(m.doc),
     release_gil |-> TRUE]

parse_zig_exports(zig_source) ==
    LET matches == FindIter(zig_source, 1)
    IN  [i \in 1..Len(matches) |-> ZigFunction(matches[i])]

(***************************************************************************)
(* The source texts handed to parse_zig_exports: a source is a sequence of *)
(* lines, and a line is a doc comment, an export declaration, a blank line *)
(* or other text.  The scanner sees only the atoms of Render(lines).       *)
(***************************************************************************)
T_i32  == <<"i", "3", "2">>
T_u8p  == <<"*", "u", "8">>
T_void == <<"v", "o", "i", "d">>
T_type == <<"type">>

Item(q, name, type) == [q |-> q, name |-> name, type |-> type]

Line(kind, indent, pub, name, items, ret, text) ==
    [kind |-> kind, indent |-> indent, pub |-> pub, name |-> name,
     items |-> items, ret |-> ret, text |-> text]

DocLine(indent, text) == Line("doc", indent, FALSE, <<>>, <<>>, <<>>, text)
DeclLine(indent, pub, name, items, ret) ==
    Line("decl", indent, pub, name, items, ret, <<>>)
BlankLine == Line("blank", 0, FALSE, <<>>, <<>>, <<>>, <<>>)
TextLine  == Line("text", 0, FALSE, <<>>, <<>>, <<>>, <<"const", " ", "x", ";">>)

\* export fn add(a: i32, b: i32) i32 {
DeclAdd ==
    DeclLine(0, FALSE, <<"add">>,
             <<Item("plain", <<"a">>, T_i32), Item("plain", <<"b">>, T_i32)>>, T_i32)

\*   pub export fn sub(comptime T: type, p: *u8, ...) void {
DeclSub ==
    DeclLine(1, TRUE, <<"sub">>,
             <<Item("comptime", <<"T">>, T_type), Item("plain", <<"p">>, T_u8p),
               Item("variadic", <<>>, <<>>)>>, T_void)

\* export fn init() void {
DeclInit == DeclLine(0, FALSE, <<"init">>, <<>>, T_void)

\* export fn cnt(comptime_n: i32) i32 {
DeclCnt ==
    DeclLine(0, FALSE, <<"cnt">>,
             <<Item("plain", <<"comptime", "_n">>, T_i32)>>, T_i32)

SampleLines ==
    {DocLine(0, <<"one">>), DocLine(1, <<"two">>), BlankLine, TextLine,
     DeclAdd, DeclSub, DeclInit, DeclCnt}

Sources == SeqsUpTo(SampleLines, MaxLines)

Indent(n) == [i \in 1..n |-> " "]

RenderItem(it) ==
    IF it.q = "variadic" THEN <<"...">>
    ELSE (IF it.q = "comptime" THEN <<"comptime", " ">> ELSE <<>>)
         \o it.name \o <<":", " ">> \o it.type

RECURSIVE RenderItems(_)
RenderItems(items) ==
    IF items = <<>> THEN <<>>
    ELSE IF Len(items) = 1 THEN RenderItem(items[1])
    ELSE RenderItem(items[1]) \o <<",", " ">> \o RenderItems(Tail(items))

RenderLine(l) ==
    IF l.kind = "doc" THEN Indent(l.indent) \o <<"///", " ">> \o l.text \o <<"\n">>
    ELSE IF l.kind = "decl"
    THEN Indent(l.indent) \o (IF l.pub THEN <<"pub", " ">> ELSE <<>>)
         \o <<"export", " ", "fn", " ">> \o l.name \o <<"(">> \o RenderItems(l.items)
         \o <<")", " ">> \o l.ret \o <<" ", "{", "\n">>
         \o Indent(l.indent) \o <<"}", "\n">>
    ELSE l.text \o <<"\n">>

RECURSIVE Render(_)
Render(lines) ==
    IF lines = <<>> THEN <<>> ELSE RenderLine(Head(lines)) \o Render(Tail(lines))

\* One call parse_zig_exports(Render(srcLines)).
CallParseZigExports ==
    /\ ~parseDone
    /\ parsed' = parse_zig_exports(Render(srcLines))
    /\ parseDone' = TRUE
    /\ UNCHANGED <<srcLines, notParse>>

InitParse ==
    /\ srcLines \in Sources
    /\ parsed = <<>>
    /\ parseDone = FALSE
    /\ TypeIdle /\ ScanIdle /\ GenIdle /\ LoadIdle /\ BuildIdle /\ CallIdle /\ CompileIdle /\ PlatformIdle /\ MetaIdle /\ ThreadIdle

NextParse == CallParseZigExports

SpecParse == InitParse /\ [][NextParse]_vars

(***************************************************************************)
(* scan_zig_sources: the loop over the *.zig files of the source tree.     *)
(* A file is its text and what read_text(encoding="utf-8") does with it:   *)
(* "ok", "unreadable" (OSError) or "undecodable" (UnicodeDecodeError).     *)
(***************************************************************************)
File(status, lines) == [status |-> status, lines |-> lines]

SampleSources ==
    {<<DeclAdd>>,
     <<DocLine(0, <<"one">>), DeclInit, TextLine>>,
     <<TextLine>>}

SampleFiles ==
    {File(st, src) : st \in {"ok", "unreadable", "undecodable"}, src \in SampleSources}

FileLists == SeqsUpTo(SampleFiles, MaxFiles)

\* A plausible slip: only OSError is caught, so a decode error escapes the loop.
ScanFile_catches_OSError(file, acc) ==
    IF file.status = "ok"
    THEN [functions |-> acc \o parse_zig_exports(Render(file.lines)), raised |-> FALSE]
    ELSE [functions |-> acc, raised |-> file.status = "undecodable"]

\* Lines 320-325: one turn of the loop, on one file.  read_text raises before
\* the file is parsed; except Exception catches it and only prints a warning.
ScanFile(file, acc) ==
    IF file.status = "ok"
    THEN [functions |-> acc \o parse_zig_exports(Render(file.lines)), raised |-> FALSE]
    ELSE [functions |-> acc, raised |-> FALSE]

\* Lines 319-325: the next file of the traversal.
ScanNext ==
    /\ scanPc = "loop"
    /\ scanIdx < Len(files)
    /\ LET r == ScanFile(files[scanIdx + 1], all_functions)
       IN  /\ all_functions' = r.functions
           /\ scanPc' = IF r.raised THEN "raised" ELSE "loop"
    /\ scanIdx' = scanIdx + 1
    /\ UNCHANGED <<files, notScan>>

\* Line 327: return all_functions.
ScanReturn ==
    /\ scanPc = "loop"
    /\ scanIdx = Len(files)
    /\ scanPc' = "returned"
    /\ UNCHANGED <<files, scanIdx, all_functions, notScan>>

InitScan ==
    /\ files \in FileLists
    /\ scanIdx = 0
    /\ all_functions = <<>>
    /\ scanPc = "loop"
    /\ TypeIdle /\ ParseIdle /\ GenIdle /\ LoadIdle /\ BuildIdle /\ CallIdle /\ CompileIdle /\ PlatformIdle /\ MetaIdle /\ ThreadIdle

NextScan == ScanNext \/ ScanReturn

SpecScan == InitScan /\ [][NextScan]_vars

(***************************************************************************)
(* generate_init_py: the text of the loader module, line by line.          *)
(* A line is a record: k says which line of the generator wrote it, name   *)
(* is the function name in it, args the parameter names in it, types the   *)
(* ctypes descriptors in it, text the doc or type text in it, and indent   *)
(* how many levels it is indented.  The blocks that do not depend on the   *)
(* functions (imports, the loading code, the GIL class, the eager load)    *)
(* are one line each.                                                      *)
(***************************************************************************)
GenLine(k, name, args, types, text, indent) ==
    [k |-> k, name |-> name, args |-> args, types |-> types, text |-> text,
     indent |-> indent]

Static(k) == GenLine(k, <<>>, <<>>, <<>>, <<>>, 0)

T_opt_i32 == <<"?", "i", "3", "2">>
T_struct  == <<"MyStruct">>

Func(name, return_type, params, doc, release_gil) ==
    [name |-> name, return_type |-> return_type, params |-> params, doc |-> doc,
     release_gil |-> release_gil]

SampleFunctions ==
    {Func(<<"add">>, T_i32, <<<<<<"a">>, T_i32>>, <<<<"b">>, T_i32>>>>, <<>>, TRUE),
     Func(<<"add">>, T_void, <<<<<<"b">>, T_u8p>>, <<<<"a">>, T_i32>>>>, <<>>, TRUE),
     Func(<<"init">>, T_void, <<>>, <<"one", "\n", "two">>, TRUE),
     Func(<<"get">>, <<"u", "8">>, <<<<<<"p">>, T_opt_i32>>>>, <<"one">>, TRUE),
     Func(<<"raw">>, T_i32, <<<<<<"x">>, T_struct>>, <<<<"n">>, T_i32>>>>, <<>>, FALSE)}

FunctionLists == SeqsUpTo(SampleFunctions, MaxFuncs)

\* A plausible slip: the names are put in sorted order (here: reversed).
ParamNames_reversed(func) ==
    [i \in 1..Len(func.params) |-> func.params[Len(func.params) + 1 - i][1]]

\* Line 485: param_list, the names of func.params joined by ", ".
ParamNames(func) == [i \in 1..Len(func.params) |-> func.params[i][1]]

\* Line 495: the descriptors of func.params joined by ", ".
ArgTypes(func) == [i \in 1..Len(func.params) |-> parse_zig_type(func.params[i][2])]

\* Lines 369-371: the entries of __all__.
AllEntries(funcs) ==
    [i \in 1..Len(funcs) |-> GenLine("all_entry", funcs[i].name, <<>>, <<>>, <<>>, 1)]

\* Lines 468-482: the docstring of a wrapper.
DocLines(func) ==
    LET docText == Split(func.doc, "\n")
    IN  <<GenLine("doc_open", func.name, <<>>, <<>>, <<>>, 1)>>
        \o (IF func.doc # <<>>
            THEN <<Static("doc_blank")>>
                 \o [i \in 1..Len(docText) |->
                        GenLine("doc_text", <<>>, <<>>, <<>>, docText[i], 1)]
            ELSE <<>>)
        \o (IF func.params # <<>>
            THEN <<Static("doc_blank"), GenLine("doc_args", <<>>, <<>>, <<>>, <<>>, 1)>>
                 \o [i \in 1..Len(func.params) |->
                        GenLine("doc_arg", func.params[i][1], <<>>, <<>>,
                                func.params[i][2], 2)]
            ELSE <<>>)
        \o (IF func.return_type # <<>> /\ func.return_type # T_void
            THEN <<Static("doc_blank"), GenLine("doc_returns", <<>>, <<>>, <<>>, <<>>, 1),
                   GenLine("doc_return", <<>>, <<>>, <<>>, func.return_type, 2)>>
            ELSE <<>>)
        \o <<GenLine("doc_close", <<>>, <<>>, <<>>, <<>>, 1)>>

\* A plausible slip: only the global switch decides, not the function's own.
CallLines_ignores_release_gil(func, gil) ==
    IF gil
    THEN <<GenLine("with", <<>>, <<>>, <<>>, <<>>, 1),
           GenLine("call", <<>>, ParamNames(func), <<>>, <<>>, 2)>>
    ELSE <<GenLine("call", <<>>, ParamNames(func), <<>>, <<>>, 1)>>

\* Lines 504-515: the call, inside "with _release_gil:" or not.
CallLines(func, gil) ==
    IF gil /\ func.release_gil
    THEN <<GenLine("with", <<>>, <<>>, <<>>, <<>>, 1),
           GenLine("call", <<>>, ParamNames(func), <<>>, <<>>, 2)>>
    ELSE <<GenLine("call", <<>>, ParamNames(func), <<>>, <<>>, 1)>>

\* Lines 466-518: the wrapper of one function.
WrapperLines(func, gil) ==
    <<GenLine("def", func.name, ParamNames(func), <<>>, <<>>, 0)>>
    \o DocLines(func)
    \o <<GenLine("load", <<>>, <<>>, <<>>, <<>>, 1),
         GenLine("bind", func.name, <<>>, <<>>, <<>>, 1),
         GenLine("argtypes", <<>>, <<>>, ArgTypes(func), <<>>, 1),
         GenLine("restype", <<>>, <<>>, <<parse_zig_type(func.return_type)>>, <<>>, 1)>>
    \o CallLines(func, gil)
    \o <<Static("blank"), Static("blank")>>

RECURSIVE AllWrappers(_, _)
AllWrappers(funcs, gil) ==
    IF funcs = <<>> THEN <<>>
    ELSE WrapperLines(Head(funcs), gil) \o AllWrappers(Tail(funcs), gil)

generate_init_py(funcs, gil) ==
    <<Static("preamble"), Static("all_open")>>
    \o AllEntries(funcs)
    \o <<Static("all_close"), Static("blank")>>
    \o <<Static("library_loading")>>
    \o (IF gil THEN <<Static("gil_management")>> ELSE <<>>)
    \o <<Static("bindings_banner")>>
    \o AllWrappers(funcs, gil)
    \o <<Static("module_initialization")>>

\* One call generate_init_py(module_name, functions, lib_filename, gil_release).
CallGenerateInitPy ==
    /\ ~genDone
    /\ genLines' = generate_init_py(functions, gil_release)
    /\ genDone' = TRUE
    /\ UNCHANGED <<functions, gil_release, notGen>>

InitGen ==
    /\ functions \in FunctionLists
    /\ gil_release \in BOOLEAN
    /\ genLines = <<>>
    /\ genDone = FALSE
    /\ TypeIdle /\ ParseIdle /\ ScanIdle /\ LoadIdle /\ BuildIdle /\ CallIdle /\ CompileIdle /\ PlatformIdle /\ MetaIdle /\ ThreadIdle

NextGen == CallGenerateInitPy

SpecGen == InitGen /\ [][NextGen]_vars

(***************************************************************************)
(* The module that generate_init_py writes, as it runs in one thread: it   *)
(* is imported (the eager load at its end), then its wrappers are called.  *)
(* What is in the package directory and whether ctypes.CDLL can load the   *)
(* library are the environment's, and may differ from call to call.        *)
(***************************************************************************)
\* lib_names has three candidates; present is the set of those that exist.
Candidates == {1, 2, 3}

Min(S) == CHOOSE x \in S : \A y \in S : x <= y

\* Lines 384-404 of the generator: _get_lib_path returns the first candidate
\* that exists (0 stands for the OSError it raises when none does).
GetLibPath(present) == IF present = {} THEN 0 ELSE Min(present)

Loaded(l, log, exc) == [lib |-> l, log |-> log, exc |-> exc]

\* A plausible slip: no test of _lib, every call loads again.
LoadLibrary_always_loads(l, log, present, cdllOk) ==
    IF GetLibPath(present) = 0
    THEN Loaded(l, Append(log, "not_found"), "OSError")
    ELSE IF ~cdllOk
    THEN Loaded(l, Append(log, "cdll_failed"), "OSError")
    ELSE Loaded(Len(log) + 1, Append(log, "loaded"), "none")

\* Lines 407-422 of the generator: _load_library.  The CDLL object made by the
\* n-th attempt is n.
LoadLibrary(l, log, present, cdllOk) ==
    IF l # 0 THEN Loaded(l, log, "none")
    ELSE IF GetLibPath(present) = 0
    THEN Loaded(l, Append(log, "not_found"), "OSError")
    ELSE IF ~cdllOk
    THEN Loaded(l, Append(log, "cdll_failed"), "OSError")
    ELSE Loaded(Len(log) + 1, Append(log, "loaded"), "none")

\* Lines 527-532 of the generator: try: _load_library() except OSError: pass.
ModuleInit ==
    /\ pcL = "import"
    /\ \E present \in SUBSET Candidates, cdllOk \in BOOLEAN :
          LET r == LoadLibrary(lib, loadLog, present, cdllOk)
          IN  /\ lib' = r.lib
              /\ loadLog' = r.log
              /\ importRaised' = (r.exc \notin {"none", "OSError"})
    /\ pcL' = "ready"
    /\ UNCHANGED <<calls, lastCall, notLoad>>

\* Lines 486-515 of the generator: a call of a wrapper, which starts with
\* lib = _load_library(); an OSError of the load goes to the caller.
WrapperCall ==
    /\ pcL = "ready"
    /\ ~importRaised
    /\ calls < MaxCalls
    /\ \E present \in SUBSET Candidates, cdllOk \in BOOLEAN :
          LET r == LoadLibrary(lib, loadLog, present, cdllOk)
          IN  /\ lib' = r.lib
              /\ loadLog' = r.log
              /\ lastCall' = IF r.exc = "none" THEN "returned" ELSE "load_error"
    /\ calls' = calls + 1
    /\ UNCHANGED <<pcL, importRaised, notLoad>>

InitLoad ==
    /\ pcL = "import"
    /\ lib = 0
    /\ loadLog = <<>>
    /\ importRaised = FALSE
    /\ calls = 0
    /\ lastCall = "none"
    /\ TypeIdle /\ ParseIdle /\ ScanIdle /\ GenIdle /\ BuildIdle /\ CallIdle /\ CompileIdle /\ PlatformIdle /\ MetaIdle /\ ThreadIdle

NextLoad == ModuleInit \/ WrapperCall

SpecLoad == InitLoad /\ [][NextLoad]_vars

(***************************************************************************)
(* The wheel builder: build_wheel and build_editable, which both run       *)
(* build_wheel_impl, and what it calls: compile_zig, create_wheel_record.  *)
(*                                                                         *)
(* A path is a sequence of names and a name a sequence of atoms.  A file's *)
(* content is its bytes; the content of RECORD is kept as its lines.  The  *)
(* bytes of a text give one byte to each atom, the bytes of the generated  *)
(* module one byte to each line.  The digest is one byte wide.             *)
(***************************************************************************)
Hosts == {"linux", "win32", "darwin"}

\* os.sep, the separator str(rel_path) is written with.
Sep(h) == IF h = "win32" THEN "\\" ELSE "/"

\* Lines 601-608.
get_lib_extension(h) ==
    IF h = "win32" THEN ".dll" ELSE IF h = "darwin" THEN ".dylib" ELSE ".so"

\* str.replace(a, b).
Replace(s, a, b) == [i \in 1..Len(s) |-> IF s[i] = a THEN b ELSE s[i]]

\* What pyproject.toml says: metadata["name"], metadata["version"], and under
\* tool.zigx the module name (<<>> when it is not given) and gil-release.
ProjectName    == <<"my", "-", "ext">>
ProjectVersion == <<"1.2.0">>

Configs ==
    {[module |-> <<>>, gil_release |-> TRUE],
     [module |-> <<"core">>, gil_release |-> FALSE]}

ProjectDirs == {<<"/", "p">>, <<"/", "q", "/", "p">>}

\* Line 795: zigx_config.get("module_name") or name.replace("-", "_").
ModuleName(cfg) ==
    IF cfg.module # <<>> THEN cfg.module ELSE Replace(ProjectName, "-", "_")

\* Line 848.
DistInfoName == ProjectName \o <<"-">> \o ProjectVersion \o <<".dist-info">>

\* The encoding of the atoms that the staged texts are made of.
AtomBytes ==
    ("/" :> 47) @@ ("p" :> 112) @@ ("q" :> 113) @@ ("my" :> 109) @@ ("_" :> 95)
    @@ ("-" :> 45) @@ ("ext" :> 101) @@ ("core" :> 99) @@ ("1.2.0" :> 49)
    @@ ("\n" :> 10) @@ ("Metadata-Version: 2.1" :> 77) @@ ("Name: " :> 78)
    @@ ("Version: " :> 86) @@ ("Wheel-Version: 1.0" :> 87)
    @@ ("Generator: zigx" :> 71) @@ ("Root-Is-Purelib: false" :> 82)
    @@ ("Tag: " :> 84) @@ ("tag" :> 116) @@ ("Requires-Python: " :> 80)
    @@ (">=3.8" :> 62)

\* write_text(text, encoding="utf-8").
Utf8(text) == [i \in 1..Len(text) |-> AtomBytes[text[i]]]

\* The bytes of the generated module: one for each line, by the line's kind.
LineBytes ==
    [k \in {"preamble", "all_open", "all_entry", "all_close", "blank",
            "library_loading", "gil_management", "bindings_banner", "def",
            "doc_open", "doc_blank", "doc_text", "doc_args", "doc_arg",
            "doc_returns", "doc_return", "doc_close", "load", "bind", "argtypes",
            "restype", "with", "call", "module_initialization"} |->
        CASE k = "all_entry" -> 97 [] k = "def" -> 100 [] k = "with" -> 119
          [] k = "call" -> 99 [] k = "gil_management" -> 103 [] OTHER -> 35]

ModuleBytes(lines) == [i \in 1..Len(lines) |-> LineBytes[lines[i].k]]

Bytes(b) == [bytes |-> b, text |-> <<>>]
Text(lines) == [bytes |-> <<>>, text |-> lines]

Node(path, kind, content) == [path |-> path, kind |-> kind, content |-> content]
Dir(path) == Node(path, "dir", Bytes(<<>>))
FileNode(path, content) == Node(path, "file", content)

\* str(rel_path): the names of the path joined by the host's separator.
RECURSIVE PathStr(_, _)
PathStr(path, sep) ==
    IF Len(path) = 1 THEN path[1]
    ELSE path[1] \o <<sep>> \o PathStr(Tail(path), sep)

\* Lines 703 and 872: str(rel_path).replace("\\", "/").
ArcName(path, sep) == Replace(PathStr(path, sep), "\\", "/")

\* hashlib.sha256(content).digest(), one byte wide.
RECURSIVE Sha256(_)
Sha256(bytes) ==
    IF bytes = <<>> THEN 227
    ELSE (Sha256(SubSeq(bytes, 1, Len(bytes) - 1)) * 31 + bytes[Len(bytes)] + 1) % 256

B64Alphabet ==
    <<"A", "B", "C", "D", "E", "F", "G", "H", "I", "J", "K", "L", "M", "N", "O", "P",
      "Q", "R", "S", "T", "U", "V", "W", "X", "Y", "Z", "a", "b", "c", "d", "e", "f",
      "g", "h", "i", "j", "k", "l", "m", "n", "o", "p", "q", "r", "s", "t", "u", "v",
      "w", "x", "y", "z", "0", "1", "2", "3", "4", "5", "6", "7", "8", "9", "-", "_">>

\* Line 708: urlsafe_b64encode(hash_digest).rstrip(b"="), of a one-byte digest:
\* its high six bits, then its low two bits followed by four zero bits.
UrlsafeB64(d) == <<B64Alphabet[(d \div 4) + 1], B64Alphabet[(d % 4) * 16 + 1]>>

RecordEntry(path, digest, size) == [path |-> path, digest |-> digest, size |-> size]

\* A plausible slip: the length recorded is that of the path, not of the content.
RecordLine_size_of_path(node, sep) ==
    RecordEntry(ArcName(node.path, sep),
                <<"sha256=">> \o UrlsafeB64(Sha256(node.content.bytes)),
                ToString(Len(ArcName(node.path, sep))))

\* Lines 701-710: the line of one file.
RecordLine(node, sep) ==
    RecordEntry(ArcName(node.path, sep),
                <<"sha256=">> \o UrlsafeB64(Sha256(node.content.bytes)),
                ToString(Len(node.content.bytes)))

\* Line 713: "RECORD,,".
SelfEntry == RecordEntry(<<"RECORD">>, <<>>, "")

\* A plausible slip: the files of the dist-info directory are left out.
create_wheel_record_skips_dist_info(nodes, sep) ==
    LET Listed(n) == n.kind = "file" /\ n.path[1] # DistInfoName
        kept == SelectSeq(nodes, Listed)
    IN  [i \in 1..Len(kept) |-> RecordLine(kept[i], sep)] \o <<SelfEntry>>

\* Lines 695-715: nodes is what wheel_dir.rglob("*") yields.
create_wheel_record(nodes, sep) ==
    LET Listed(n) == n.kind = "file" /\ n.path[Len(n.path)] # <<"RECORD">>
        kept == SelectSeq(nodes, Listed)
    IN  [i \in 1..Len(kept) |-> RecordLine(kept[i], sep)] \o <<SelfEntry>>

\* Lines 729-739 and 770-777: the METADATA and WHEEL texts of this project,
\* which gives only its name and version in pyproject.toml.
MetadataContent ==
    <<"Metadata-Version: 2.1", "\n", "Name: ">> \o ProjectName
    \o <<"\n", "Version: ">> \o ProjectVersion
    \o <<"\n", "Requires-Python: ", ">=3.8">>

WheelContent ==
    <<"Wheel-Version: 1.0", "\n", "Generator: zigx", "\n",
      "Root-Is-Purelib: false", "\n", "Tag: ", "tag">>

(***************************************************************************)
(* compile_zig.  env is what it finds: whether find_zig finds a compiler,  *)
(* the *.zig files of src_dir in the order glob yields them, and what the  *)
(* compiler process does.                                                  *)
(***************************************************************************)
CompileEnv(zig, listing, returncode, stderr, stdout, output, extra) ==
    [zig |-> zig, listing |-> listing, returncode |-> returncode,
     stderr |-> stderr, stdout |-> stdout, output |-> output, extra |-> extra]

InSeq(x, s) == \E i \in 1..Len(s) : s[i] = x

\* A plausible slip: the first file found is taken before the conventional
\* names are tried.
MainFile_first_found(listing, module) ==
    IF listing # <<>> THEN listing[1] ELSE <<>>

\* Lines 622-637: the main file, <<>> when there is none.
MainFile(listing, module) ==
    LET main_files == <<<<"lib.zig">>, <<"main.zig">>, module \o <<".zig">>>>
        Exists(name) == InSeq(name, listing)
        found == SelectSeq(main_files, Exists)
    IN  IF found # <<>> THEN found[1]
        ELSE IF listing # <<>> THEN listing[1]
        ELSE <<>>

\* Lines 640-642.
OutputName(module, h) == <<"lib">> \o module \o <<get_lib_extension(h)>>

Compiled(outcome, ran, main_file, message) ==
    [outcome |-> outcome, ran |-> ran, main_file |-> main_file, message |-> message]

\* A plausible slip: the standard output is preferred to the standard error.
compile_zig_prefers_stdout(env, module, h) ==
    LET main_file == MainFile(env.listing, module)
    IN  IF ~env.zig THEN Compiled("toolchain", FALSE, <<>>, <<>>)
        ELSE IF main_file = <<>> THEN Compiled("no_source", FALSE, <<>>, <<>>)
        ELSE IF env.returncode # 0
        THEN Compiled("compile", TRUE, main_file,
                      <<"Zig compilation failed:", "\n">>
                      \o (IF env.stdout # <<>> THEN env.stdout ELSE env.stderr))
        ELSE IF env.output = <<>> THEN Compiled("integrity", TRUE, main_file, <<>>)
        ELSE Compiled("ok", TRUE, main_file, <<>>)

\* Lines 611-687.  outcome is "ok" or the error raised; ran says whether the
\* compiler process was started.
compile_zig(env, module, h) ==
    LET main_file == MainFile(env.listing, module)
    IN  IF ~env.zig THEN Compiled("toolchain", FALSE, <<>>, <<>>)
        ELSE IF main_file = <<>> THEN Compiled("no_source", FALSE, <<>>, <<>>)
        ELSE IF env.returncode # 0
        THEN Compiled("compile", TRUE, main_file,
                      <<"Zig compilation failed:", "\n">>
                      \o (IF env.stderr # <<>> THEN env.stderr ELSE env.stdout))
        ELSE IF env.output = <<>> THEN Compiled("integrity", TRUE, main_file, <<>>)
        ELSE Compiled("ok", TRUE, main_file, <<>>)

\* What the builds of the model find when they compile.  output is the bytes
\* the compiler wrote to the output file (<<>>: it wrote none), extra says
\* whether it left another file of its own beside it.
BuildCompileEnvs ==
    {CompileEnv(FALSE, <<<<"lib.zig">>>>, 0, <<>>, <<>>, <<127, 69>>, FALSE),
     CompileEnv(TRUE, <<>>, 0, <<>>, <<>>, <<127, 69>>, FALSE),
     CompileEnv(TRUE, <<<<"lib.zig">>>>, 1, <<"error">>, <<>>, <<>>, FALSE),
     CompileEnv(TRUE, <<<<"a.zig">>, <<"main.zig">>>>, 1, <<>>, <<"failed">>, <<>>, TRUE),
     CompileEnv(TRUE, <<<<"lib.zig">>>>, 0, <<>>, <<>>, <<>>, FALSE),
     CompileEnv(TRUE, <<<<"lib.zig">>>>, 0, <<>>, <<>>, <<127, 69>>, FALSE),
     CompileEnv(TRUE, <<<<"a.zig">>>>, 0, <<>>, <<>>, <<77, 90, 0>>, TRUE)}

\* Lines 315-327 as one call: the loop of ScanFile over the files.
RECURSIVE scan_zig_sources(_)
scan_zig_sources(fs) ==
    IF fs = <<>> THEN [functions |-> <<>>, raised |-> FALSE]
    ELSE LET before == scan_zig_sources(SubSeq(fs, 1, Len(fs) - 1))
         IN  IF before.raised THEN before
             ELSE ScanFile(fs[Len(fs)], before.functions)

\* The source trees of the builds of the model.
BuildTrees ==
    {<<>>,
     <<File("ok", <<DeclAdd>>), File("undecodable", <<DeclInit>>),
       File("ok", <<DocLine(0, <<"one">>), DeclInit>>)>>}

(***************************************************************************)
(* build_wheel_impl, one action for each of its steps.  tree is the        *)
(* staging directory: its directories and files in the order they were     *)
(* made, paths relative to it.  archive is the wheel file: its members in  *)
(* the order they were written.                                            *)
(***************************************************************************)
fixedVars == <<editable, host, project_dir>>
zipVars   == <<archiveOpened, archive, zipTodo>>
runVars   == <<compilerRuns, scannerRuns>>

module_name == ModuleName(config)

\* What rglob("*") may yield: a directory comes before what it holds, the
\* entries of one directory come in the order the file system keeps them.
Rglob(t) ==
    LET InDistInfo(n) == n.path[1] = DistInfoName
        Other(n) == n.path[1] # DistInfoName
    IN  {t, SelectSeq(t, InDistInfo) \o SelectSeq(t, Other)}

\* A plausible slip: the directory is removed only when the block is left
\* normally.
TempAfterExit_kept_on_error(how) == how = "exception"

\* Lines 808 and 873: whether the temporary directory stays when the with
\* block is left, normally ("return") or by an exception ("exception").
\* TemporaryDirectory.__exit__ removes it either way.
TempAfterExit(how) == FALSE

\* A plausible slip: the payload of an editable build is built as well.
PayloadStep_always_compiles(isEditable) == "compile"

\* A plausible slip: the archive is opened as soon as the package directory
\* is there, before anything is staged.
PayloadStep_opens_archive_first(isEditable) == "zipopen"

\* Lines 813 and 818: the branch on editable.
PayloadStep(isEditable) == IF isEditable THEN "pth" ELSE "compile"

\* Control leaves build_wheel_impl: by the return of line 875 or by an
\* exception that nothing in it catches.
Exit(how, kind) ==
    /\ pc' = IF how = "return" THEN "returned" ELSE "raised"
    /\ error' = kind
    /\ tempExists' = (tempExists /\ TempAfterExit(how))
    /\ tree' = IF tempExists /\ TempAfterExit(how) THEN tree ELSE <<>>

\* One more entry in the staging directory, and on to the next step.
Stage(node, next) ==
    /\ tempExists
    /\ tree' = Append(tree, node)
    /\ pc' = next
    /\ UNCHANGED <<tempExists, error>>

\* Lines 790-805: pyproject.toml is read; read_pyproject_toml raises when it
\* is missing.
ReadConfig ==
    /\ pc = "config"
    /\ \/ /\ \E cfg \in Configs : config' = cfg
          /\ pc' = "tempdir"
          /\ UNCHANGED error
       \/ /\ pc' = "raised"
          /\ error' = "config"
          /\ UNCHANGED config
    /\ UNCHANGED <<fixedVars, tempAcquired, tempExists, tree, record_content,
                   zipVars, runVars, notBuild>>

\* Line 808: tempfile.TemporaryDirectory() makes the directory.
EnterTemp ==
    /\ pc = "tempdir"
    /\ tempAcquired' = TRUE
    /\ tempExists' = TRUE
    /\ pc' = "pkgdir"
    /\ UNCHANGED <<fixedVars, config, tree, record_content, zipVars, runVars,
                   error, notBuild>>

\* Lines 810-812: pkg_dir.mkdir(parents=True).
MakePkgDir ==
    /\ pc = "pkgdir"
    /\ Stage(Dir(<<module_name>>), PayloadStep(editable))
    /\ UNCHANGED <<fixedVars, config, tempAcquired, record_content, zipVars,
                   runVars, notBuild>>

\* Lines 813-817.
WritePth ==
    /\ pc = "pth"
    /\ Stage(FileNode(<<module_name \o <<".pth">>>>, Bytes(Utf8(project_dir))),
             "distinfo")
    /\ UNCHANGED <<fixedVars, config, tempAcquired, record_content, zipVars,
                   runVars, notBuild>>

\* Lines 820-828: compile_zig writes the library into pkg_dir or raises.
Compile ==
    /\ pc = "compile"
    /\ \E env \in BuildCompileEnvs :
         LET r == compile_zig(env, module_name, host)
             made ==
                 (IF env.extra
                  THEN <<FileNode(<<module_name, <<"lib">> \o module_name \o <<".pdb">>>>,
                                  Bytes(<<80>>))>>
                  ELSE <<>>)
                 \o <<FileNode(<<module_name, OutputName(module_name, host)>>,
                               Bytes(env.output))>>
         IN  /\ compilerRuns' = compilerRuns + (IF r.ran THEN 1 ELSE 0)
             /\ IF r.outcome = "ok"
                THEN /\ tempExists
                     /\ tree' = tree \o made
                     /\ pc' = "scan"
                     /\ UNCHANGED <<tempExists, error>>
                ELSE Exit("exception", r.outcome)
    /\ UNCHANGED <<fixedVars, config, tempAcquired, record_content, zipVars,
                   scannerRuns, notBuild>>

\* Lines 830-841: the sources are scanned, the loader module is generated
\* from what was found and written to __init__.py.
ScanAndGenerate ==
    /\ pc = "scan"
    /\ \E sources \in BuildTrees :
         LET r == scan_zig_sources(sources)
             init_content == generate_init_py(r.functions, config.gil_release)
         IN  IF r.raised
             THEN Exit("exception", "scan")
             ELSE Stage(FileNode(<<module_name, <<"__init__.py">>>>,
                                 Bytes(ModuleBytes(init_content))),
                        "pytyped")
    /\ scannerRuns' = scannerRuns + 1
    /\ UNCHANGED <<fixedVars, config, tempAcquired, record_content, zipVars,
                   compilerRuns, notBuild>>

\* Lines 844-845.
WritePyTyped ==
    /\ pc = "pytyped"
    /\ Stage(FileNode(<<module_name, <<"py.typed">>>>, Bytes(<<>>)), "distinfo")
    /\ UNCHANGED <<fixedVars, config, tempAcquired, record_content, zipVars,
                   runVars, notBuild>>

\* Lines 848-850.
MakeDistInfo ==
    /\ pc = "distinfo"
    /\ Stage(Dir(<<DistInfoName>>), "metadata")
    /\ UNCHANGED <<fixedVars, config, tempAcquired, record_content, zipVars,
                   runVars, notBuild>>

\* Lines 853-857.
WriteMetadata ==
    /\ pc = "metadata"
    /\ Stage(FileNode(<<DistInfoName, <<"METADATA">>>>, Bytes(Utf8(MetadataContent))),
             "wheel")
    /\ UNCHANGED <<fixedVars, config, tempAcquired, record_content, zipVars,
                   runVars, notBuild>>

\* Line 858.
WriteWheel ==
    /\ pc = "wheel"
    /\ Stage(FileNode(<<DistInfoName, <<"WHEEL">>>>, Bytes(Utf8(WheelContent))),
             "toplevel")
    /\ UNCHANGED <<fixedVars, config, tempAcquired, record_content, zipVars,
                   runVars, notBuild>>

\* Line 859.
WriteTopLevel ==
    /\ pc = "toplevel"
    /\ Stage(FileNode(<<DistInfoName, <<"top_level.txt">>>>, Bytes(Utf8(module_name))),
             "record")
    /\ UNCHANGED <<fixedVars, config, tempAcquired, record_content, zipVars,
                   runVars, notBuild>>

\* Lines 862-863: the manifest is computed from the staged files and written.
WriteRecord ==
    /\ pc = "record"
    /\ \E nodes \in Rglob(tree) :
         /\ record_content' = create_wheel_record(nodes, Sep(host))
         /\ Stage(FileNode(<<DistInfoName, <<"RECORD">>>>,
                           Text(create_wheel_record(nodes, Sep(host)))),
                  "zipopen")
    /\ UNCHANGED <<fixedVars, config, tempAcquired, zipVars, runVars, notBuild>>

\* Lines 866-868: the wheel file is opened for writing, which empties it, and
\* the traversal of the staging directory begins.
ZipOpen ==
    /\ pc = "zipopen"
    /\ archiveOpened' = TRUE
    /\ archive' = <<>>
    /\ zipTodo' \in Rglob(tree)
    /\ pc' = "zipwrite"
    /\ UNCHANGED <<fixedVars, config, tempAcquired, tempExists, tree,
                   record_content, runVars, error, notBuild>>

\* Lines 868-873: one turn of the loop; only a file becomes a member.
ZipWrite ==
    /\ pc = "zipwrite"
    /\ zipTodo # <<>>
    /\ LET file_path == Head(zipTodo)
       IN  archive' =
               IF file_path.kind = "file"
               THEN Append(archive, [name |-> ArcName(file_path.path, Sep(host)),
                                     content |-> file_path.content])
               ELSE archive
    /\ zipTodo' = Tail(zipTodo)
    /\ UNCHANGED <<pc, fixedVars, config, tempAcquired, tempExists, tree,
                   record_content, archiveOpened, runVars, error, notBuild>>

\* Lines 873-875: the loop is over, both with blocks are left, the name of
\* the wheel is returned.
Return ==
    /\ pc = "zipwrite"
    /\ zipTodo = <<>>
    /\ Exit("return", "none")
    /\ UNCHANGED <<fixedVars, config, tempAcquired, record_content, zipVars,
                   runVars, notBuild>>

\* The steps that make or write a file or a directory; any of them can fail
\* with an OSError.
IOSteps ==
    {"tempdir", "pkgdir", "pth", "compile", "pytyped", "distinfo", "metadata",
     "wheel", "toplevel", "record", "zipopen", "zipwrite"}

\* An OSError in one of those steps: it is caught nowhere in build_wheel_impl.
IOError ==
    /\ pc \in IOSteps
    /\ Exit("exception", "io")
    /\ UNCHANGED <<fixedVars, config, tempAcquired, record_content, zipVars,
                   runVars, notBuild>>

\* build_wheel (lines 904-918) and build_editable (lines 921-935) are called
\* in some project directory on some host.
InitBuild ==
    /\ pc = "config"
    /\ editable \in BOOLEAN
    /\ host \in Hosts
    /\ project_dir \in ProjectDirs
    /\ config = <<>>
    /\ tempAcquired = FALSE /\ tempExists = FALSE /\ tree = <<>>
    /\ record_content = <<>> /\ archiveOpened = FALSE /\ archive = <<>>
    /\ zipTodo = <<>> /\ compilerRuns = 0 /\ scannerRuns = 0 /\ error = "none"
    /\ TypeIdle /\ ParseIdle /\ ScanIdle /\ GenIdle /\ LoadIdle /\ CallIdle /\ CompileIdle /\ PlatformIdle /\ MetaIdle /\ ThreadIdle

NextBuild ==
    \/ ReadConfig \/ EnterTemp \/ MakePkgDir \/ WritePth \/ Compile
    \/ ScanAndGenerate \/ WritePyTyped \/ MakeDistInfo \/ WriteMetadata
    \/ WriteWheel \/ WriteTopLevel \/ WriteRecord \/ ZipOpen \/ ZipWrite
    \/ Return \/ IOError

Spec == InitBuild /\ [][NextBuild]_vars

(***************************************************************************)
(* A call of a generated wrapper: the statements of its body are run one   *)
(* by one, as Python runs them.  The statements are the lines that         *)
(* WrapperLines puts after the docstring.                                  *)
(***************************************************************************)
StatementKinds == {"load", "bind", "argtypes", "restype", "with", "call"}

Body(lines) == LET IsStatement(l) == l.k \in StatementKinds IN SelectSeq(lines, IsStatement)

\* Lines 453-454: what _ReleaseGIL.__exit__ returns, for an exit with an
\* exception in flight or without.  It returns None, which does not
\* suppress an exception.
ReleaseGIL_exit(exc) == FALSE

\* How a call ends that leaves its last with block, or is in none.
Ended(outcome) == IF outcome = "raises" THEN "raised" ELSE "returned"

\* Control leaves the statement being run, by a return or by an exception:
\* through the with blocks the call is inside, if any.
Leave ==
    /\ wPc' = IF wScope > 0 THEN "unwind" ELSE Ended(wNative)
    /\ wBody' = <<>>

\* Line 488: lib = _load_library(), which returns the handle or raises OSError.
RunLoad ==
    /\ wPc = "run" /\ wBody # <<>> /\ Head(wBody).k = "load"
    /\ \/ /\ wBody' = Tail(wBody)
          /\ wTrace' = Append(wTrace, "load")
          /\ UNCHANGED wPc
       \/ /\ wPc' = "raised"
          /\ wBody' = <<>>
          /\ wTrace' = Append(wTrace, "load failed")
    /\ UNCHANGED <<wFunc, wGil, wScope, wNative, notCall>>

\* Lines 489-501: func = lib.name, func.argtypes = [...], func.restype = ...
RunSetup ==
    /\ wPc = "run" /\ wBody # <<>>
    /\ Head(wBody).k \in {"bind", "argtypes", "restype"}
    /\ wBody' = Tail(wBody)
    /\ UNCHANGED <<wFunc, wGil, wScope, wTrace, wNative, wPc, notCall>>

\* Lines 437-440 and 505: with _release_gil: runs __enter__, which returns self.
EnterScope ==
    /\ wPc = "run" /\ wBody # <<>> /\ Head(wBody).k = "with"
    /\ wScope' = wScope + 1
    /\ wTrace' = Append(wTrace, "enter")
    /\ wBody' = Tail(wBody)
    /\ UNCHANGED <<wFunc, wGil, wNative, wPc, notCall>>

\* Lines 506-515: return func(...), the native call.  It is inside a with
\* block when it is indented one level deeper for each block entered.
NativeCall ==
    /\ wPc = "run" /\ wBody # <<>> /\ Head(wBody).k = "call"
    /\ Head(wBody).indent = 1 + wScope
    /\ wTrace' = Append(wTrace, "native")
    /\ Leave
    /\ UNCHANGED <<wFunc, wGil, wScope, wNative, notCall>>

\* Lines 442-443: leaving the with block runs __exit__; the exception of the
\* native call goes on to the caller unless __exit__ returns a true value.
ExitScope ==
    /\ wPc = "unwind"
    /\ wScope > 0
    /\ wScope' = wScope - 1
    /\ wTrace' = Append(wTrace, "exit")
    /\ wPc' = IF wScope > 1 THEN "unwind"
              ELSE IF wNative = "raises" /\ ReleaseGIL_exit(TRUE) THEN "returned"
              ELSE Ended(wNative)
    /\ UNCHANGED <<wFunc, wGil, wBody, wNative, notCall>>

\* A wrapper generated from some function record is called, and the native
\* function behind it returns or raises.
InitCall ==
    /\ wFunc \in SampleFunctions
    /\ wGil \in BOOLEAN
    /\ wNative \in {"returns", "raises"}
    /\ wBody = Body(WrapperLines(wFunc, wGil))
    /\ wScope = 0
    /\ wTrace = <<>>
    /\ wPc = "run"
    /\ TypeIdle /\ ParseIdle /\ ScanIdle /\ GenIdle /\ LoadIdle /\ BuildIdle /\ CompileIdle /\ PlatformIdle /\ MetaIdle /\ ThreadIdle

NextCall == RunLoad \/ RunSetup \/ EnterScope \/ NativeCall \/ ExitScope

SpecCall == InitCall /\ [][NextCall]_vars

(***************************************************************************)
(* compile_zig on its own: one call, in a source directory that holds any  *)
(* few of the files below in any order, with a compiler process that ends  *)
(* in any of the ways below.                                               *)
(***************************************************************************)
Modules == {<<"core">>, <<"my", "_", "ext">>}

SourceNames(module) ==
    {<<"lib.zig">>, <<"main.zig">>, module \o <<".zig">>, <<"a.zig">>, <<"b.zig">>}

\* What glob("*.zig") may yield: distinct names, in any order.
Listings(module) ==
    {l \in SeqsUpTo(SourceNames(module), MaxSources) :
        \A i, j \in 1..Len(l) : i # j => l[i] # l[j]}

CompileEnvs(module) ==
    {CompileEnv(zig, listing, returncode, stderr, stdout, output, FALSE) :
        zig \in BOOLEAN, listing \in Listings(module), returncode \in {0, 1, -9},
        stderr \in {<<>>, <<"error">>}, stdout \in {<<>>, <<"failed">>},
        output \in {<<>>, <<127, 69>>}}

\* One call compile_zig(src_dir, output_dir, module_name).
CallCompileZig ==
    /\ cResult.outcome = "unset"
    /\ cResult' = compile_zig(cEnv, cModule, cHost)
    /\ cPath' = IF compile_zig(cEnv, cModule, cHost).outcome = "ok"
                THEN <<OutputName(cModule, cHost)>>
                ELSE <<>>
    /\ UNCHANGED <<cEnv, cModule, cHost, notCompile>>

InitCompile ==
    /\ cModule \in Modules
    /\ cHost \in Hosts
    /\ cEnv \in CompileEnvs(cModule)
    /\ cResult = NotCalled
    /\ cPath = <<>>
    /\ TypeIdle /\ ParseIdle /\ ScanIdle /\ GenIdle /\ LoadIdle /\ BuildIdle /\ CallIdle /\ PlatformIdle /\ MetaIdle /\ ThreadIdle

NextCompile == CallCompileZig

SpecCompile == InitCompile /\ [][NextCompile]_vars

(***************************************************************************)
(* get_platform_tag.  The names of systems and machines are atoms, and the *)
(* tag is the sequence of the pieces it is put together from.              *)
(***************************************************************************)
Systems  == {"Windows", "Darwin", "Linux", "FreeBSD", "SunOS", ""}
Machines ==
    {"AMD64", "x86_64", "ARM64", "arm64", "aarch64", "x86", "i686", "armv7l",
     "ppc64le", "riscv64", ""}

\* str.lower() on the names above.
Lower(a) ==
    CASE a = "Windows" -> "windows" [] a = "Darwin" -> "darwin" [] a = "Linux" -> "linux"
      [] a = "FreeBSD" -> "freebsd" [] a = "SunOS" -> "sunos" [] a = "AMD64" -> "amd64"
      [] a = "ARM64" -> "arm64" [] OTHER -> a

\* Lines 71-100.
get_platform_tag(sys_name, machine_name) ==
    LET system == Lower(sys_name)
        machine == Lower(machine_name)
    IN  IF system = "windows"
        THEN IF machine \in {"amd64", "x86_64"} THEN <<"win_amd64">>
             ELSE IF machine = "arm64" THEN <<"win_arm64">>
             ELSE <<"win32">>
        ELSE IF system = "darwin"
        THEN IF machine = "arm64" THEN <<"macosx_11_0_arm64">>
             ELSE IF machine = "x86_64" THEN <<"macosx_10_9_x86_64">>
             ELSE <<"macosx_10_9_", machine>>
        ELSE IF system = "linux"
        THEN IF machine = "x86_64" THEN <<"manylinux2014_x86_64">>
             ELSE IF machine = "aarch64" THEN <<"manylinux2014_aarch64">>
             ELSE <<"linux_", machine>>
        ELSE <<system, "_", machine>>

\* One call get_platform_tag() on some host.
CallGetPlatformTag ==
    /\ pTag = <<>>
    /\ pTag' = get_platform_tag(pSystem, pMachine)
    /\ UNCHANGED <<pSystem, pMachine, notPlatform>>

InitPlatform ==
    /\ pSystem \in Systems
    /\ pMachine \in Machines
    /\ pTag = <<>>
    /\ TypeIdle /\ ParseIdle /\ ScanIdle /\ GenIdle /\ LoadIdle /\ BuildIdle /\ CallIdle /\ CompileIdle /\ MetaIdle /\ ThreadIdle

NextPlatform == CallGetPlatformTag

SpecPlatform == InitPlatform /\ [][NextPlatform]_vars

(***************************************************************************)
(* create_wheel_metadata.  metadata is what get_project_metadata returns;  *)
(* a value that is absent is "" or <<>> as there.  A value is one atom,    *)
(* a line the sequence of the atoms it is put together from, and the text  *)
(* returned the lines joined by "\n".                                      *)
(***************************************************************************)
Author(kind, name, email) == [kind |-> kind, name |-> name, email |-> email]

License(kind, text) == [kind |-> kind, text |-> text]

\* Lines 735-736.
SummaryLines(m) ==
    IF m.description # "" THEN <<<<"Summary: ", m.description>>>> ELSE <<>>

\* Lines 738-739.
RequiresPythonLines(m) ==
    IF m.requires_python # "" THEN <<<<"Requires-Python: ", m.requires_python>>>> ELSE <<>>

\* Lines 741-746: license is a table (with or without the key text), a
\* string, or absent.
LicenseLines(m) ==
    IF m.license.kind = "none" THEN <<>>
    ELSE <<<<"License: ", m.license.text>>>>

\* Lines 749-755: the line of one author, none for some.
AuthorLine(author) ==
    IF author.kind # "dict" THEN <<>>
    ELSE IF author.name # "" /\ author.email # ""
    THEN <<<<"Author-Email: ", author.name, " <", author.email, ">">>>>
    ELSE IF author.name # "" THEN <<<<"Author: ", author.name>>>>
    ELSE <<>>

\* Lines 748-755.
RECURSIVE AuthorLines(_)
AuthorLines(authors) ==
    IF authors = <<>> THEN <<>>
    ELSE AuthorLine(Head(authors)) \o AuthorLines(Tail(authors))

\* A plausible slip: the classifiers come out sorted (here: reversed).
ClassifierLines_reversed(classifiers) ==
    [i \in 1..Len(classifiers) |->
        <<"Classifier: ", classifiers[Len(classifiers) + 1 - i]>>]

\* Lines 757-758.
ClassifierLines(classifiers) ==
    [i \in 1..Len(classifiers) |-> <<"Classifier: ", classifiers[i]>>]

\* Lines 760-761.
DependencyLines(dependencies) ==
    [i \in 1..Len(dependencies) |-> <<"Requires-Dist: ", dependencies[i]>>]

\* Lines 763-765: urls is a dict, here its items in the order it keeps them.
UrlLines(urls) ==
    [i \in 1..Len(urls) |-> <<"Project-URL: ", urls[i][1], ", ", urls[i][2]>>]

\* Lines 718-779.
create_wheel_metadata(m) ==
    LET meta_lines ==
            <<<<"Metadata-Version: 2.1">>, <<"Name: ", m.name>>, <<"Version: ", m.version>>>>
            \o SummaryLines(m) \o RequiresPythonLines(m) \o LicenseLines(m)
            \o AuthorLines(m.authors) \o ClassifierLines(m.classifiers)
            \o DependencyLines(m.dependencies) \o UrlLines(m.urls)
    IN  [metadata_content |-> Join(meta_lines, "\n"), wheel_content |-> WheelContent]

SampleAuthors ==
    {Author("dict", "Ann", "ann@x.org"), Author("dict", "Bob", ""),
     Author("dict", "", "cy@x.org"), Author("str", "Dee", "")}

SampleClassifiers  == {"Topic :: A", "Topic :: B"}
SampleDependencies == {"numpy", "cffi>=1"}

\* The url tables: a table has each label once.
SampleUrls ==
    {<<>>, <<<<"Home", "https://h">>>>, <<<<"Docs", "https://d">>>>,
     <<<<"Home", "https://h">>, <<"Docs", "https://d">>>>,
     <<<<"Docs", "https://d">>, <<"Home", "https://h">>>>}

\* The fields with one value: summary, minimum Python version, license.
SampleSingles ==
    {[description |-> "", requires_python |-> "", license |-> License("none", "")],
     [description |-> "fast", requires_python |-> ">=3.8", license |-> License("dict", "MIT")],
     [description |-> "", requires_python |-> ">=3.8", license |-> License("str", "MIT")],
     [description |-> "fast", requires_python |-> ">=3.8", license |-> License("dict", "")]}

Metadata(one, authors, classifiers, dependencies, urls) ==
    [name |-> "my-ext", version |-> "1.2.0", description |-> one.description,
     requires_python |-> one.requires_python, license |-> one.license,
     authors |-> authors, classifiers |-> classifiers,
     dependencies |-> dependencies, urls |-> urls]

\* The projects of the model: any authors with one choice of entries, and
\* any entries with no author or one.
Metadatas ==
    {Metadata(one, authors, <<"Topic :: A">>, <<>>, <<<<"Home", "https://h">>>>) :
        one \in SampleSingles, authors \in SeqsUpTo(SampleAuthors, MaxAuthors)}
    \cup
    {Metadata(one, authors, classifiers, dependencies, urls) :
        one \in SampleSingles,
        authors \in {<<>>, <<Author("dict", "Ann", "ann@x.org")>>},
        classifiers \in SeqsUpTo(SampleClassifiers, MaxEntries),
        dependencies \in SeqsUpTo(SampleDependencies, MaxEntries),
        urls \in SampleUrls}

\* One call create_wheel_metadata(metadata, python_tag, abi_tag, platform_tag).
CallCreateWheelMetadata ==
    /\ metaOut = <<>>
    /\ metaOut' = create_wheel_metadata(metadata).metadata_content
    /\ UNCHANGED <<metadata, notMeta>>

InitMeta ==
    /\ metadata \in Metadatas
    /\ metaOut = <<>>
    /\ TypeIdle /\ ParseIdle /\ ScanIdle /\ GenIdle /\ LoadIdle /\ BuildIdle /\ CallIdle /\ CompileIdle /\ PlatformIdle /\ ThreadIdle

NextMeta == CallCreateWheelMetadata

SpecMeta == InitMeta /\ [][NextMeta]_vars

(***************************************************************************)
(* _load_library of the generated module, called by several threads after  *)
(* the module was imported.  A thread can be switched out between any two  *)
(* statements, and between the call of ctypes.CDLL and the store to _lib.  *)
(***************************************************************************)
Threads == 1..MaxThreads

\* Lines 407-409: a thread calls _load_library (at the start of a wrapper).
TCall(t) ==
    /\ tPc[t] = "idle"
    /\ tPc' = [tPc EXCEPT ![t] = "test"]
    /\ UNCHANGED <<tLib, tLog, tObj, tRet, notThread>>

\* Lines 410-411: if _lib is not None: return _lib.
TTest(t) ==
    /\ tPc[t] = "test"
    /\ IF tLib # 0
       THEN /\ tRet' = [tRet EXCEPT ![t] = tLib]
            /\ tPc' = [tPc EXCEPT ![t] = "returned"]
       ELSE /\ tPc' = [tPc EXCEPT ![t] = "path"]
            /\ UNCHANGED tRet
    /\ UNCHANGED <<tLib, tLog, tObj, notThread>>

\* Line 413: lib_path = _get_lib_path(), which raises when no candidate exists.
TPath(t) ==
    /\ tPc[t] = "path"
    /\ \E present \in SUBSET Candidates :
          IF GetLibPath(present) = 0
          THEN /\ tLog' = Append(tLog, "not_found")
               /\ tPc' = [tPc EXCEPT ![t] = "raised"]
          ELSE /\ tPc' = [tPc EXCEPT ![t] = "cdll"]
               /\ UNCHANGED tLog
    /\ UNCHANGED <<tLib, tObj, tRet, notThread>>

\* Lines 415-420: ctypes.CDLL(str(lib_path)) loads the library and makes the
\* object, or raises.  The object made by the n-th attempt is n.
TCdll(t) ==
    /\ tPc[t] = "cdll"
    /\ \E cdllOk \in BOOLEAN :
          IF cdllOk
          THEN /\ tLog' = Append(tLog, "loaded")
               /\ tObj' = [tObj EXCEPT ![t] = Len(tLog) + 1]
               /\ tPc' = [tPc EXCEPT ![t] = "store"]
          ELSE /\ tLog' = Append(tLog, "cdll_failed")
               /\ tPc' = [tPc EXCEPT ![t] = "raised"]
               /\ UNCHANGED tObj
    /\ UNCHANGED <<tLib, tRet, notThread>>

\* Line 416: _lib = the object just made.
TStore(t) ==
    /\ tPc[t] = "store"
    /\ tLib' = tObj[t]
    /\ tObj' = [tObj EXCEPT ![t] = 0]
    /\ tPc' = [tPc EXCEPT ![t] = "return"]
    /\ UNCHANGED <<tLog, tRet, notThread>>

\* Line 422: return _lib.
TReturn(t) ==
    /\ tPc[t] = "return"
    /\ tRet' = [tRet EXCEPT ![t] = tLib]
    /\ tPc' = [tPc EXCEPT ![t] = "returned"]
    /\ UNCHANGED <<tLib, tLog, tObj, notThread>>

\* The module has been imported: its eager load (lines 527-532) has set _lib,
\* or has failed and left it unset.
InitThreads ==
    /\ \/ tLib = 1 /\ tLog = <<"loaded">>
       \/ tLib = 0 /\ tLog \in {<<"not_found">>, <<"cdll_failed">>}
    /\ tPc = [t \in Threads |-> "idle"]
    /\ tObj = [t \in Threads |-> 0]
    /\ tRet = [t \in Threads |-> 0]
    /\ TypeIdle /\ ParseIdle /\ ScanIdle /\ GenIdle /\ LoadIdle /\ BuildIdle /\ CallIdle /\ CompileIdle /\ PlatformIdle /\ MetaIdle

NextThreads ==
    \E t \in Threads :
        TCall(t) \/ TTest(t) \/ TPath(t) \/ TCdll(t) \/ TStore(t) \/ TReturn(t)

SpecThreads == InitThreads /\ [][NextThreads]_vars

(***************************************************************************)
(* The specification of the type mapper: every call, on every spelling.    *)
(***************************************************************************)
InitType ==
    /\ typeIn \in TypeSpellings
    /\ typeOut = "unset"
    /\ ParseIdle /\ ScanIdle /\ GenIdle /\ LoadIdle /\ BuildIdle /\ CallIdle /\ CompileIdle /\ PlatformIdle /\ MetaIdle /\ ThreadIdle

NextType == CallParseZigType

SpecType == InitType /\ [][NextType]_vars

(***************************************************************************)
(* The wheel that a build leaves behind, read back from the archive.       *)
(***************************************************************************)
RecordMember == ArcName(<<DistInfoName, <<"RECORD">>>>, "/")

Members(name) == {i \in 1..Len(archive) : archive[i].name = name}

ArchivedNames == {archive[i].name : i \in 1..Len(archive)}

\* The lines of the archived RECORD, <<>> when the archive has none.
Manifest ==
    IF Members(RecordMember) = {} THEN <<>>
    ELSE archive[CHOOSE i \in Members(RecordMember) : TRUE].content.text

ManifestPaths == {Manifest[i].path : i \in 1..Len(Manifest) - 1}

\* C1: in every wheel that a build returns, the paths of the RECORD manifest,
\* its last line (the self-entry) left aside, are exactly the names of the
\* files of the archive other than RECORD: none missing, none extra.
C1_ManifestListsArchive ==
    pc = "returned" =>
        /\ Manifest # <<>>
        /\ ManifestPaths = ArchivedNames \ {RecordMember}

\* A native build on Windows whose compiler left a second file in the package
\* directory has returned: eight members, paths written with backslashes.
C1_Witness ==
    /\ pc = "returned"
    /\ ~editable
    /\ host = "win32"
    /\ Len(archive) = 8
    /\ Cardinality(ManifestPaths) = 7

\* The manifest line that the bytes of a member deserve.
Verifies(entry, bytes) ==
    /\ entry.digest = <<"sha256=">> \o UrlsafeB64(Sha256(bytes))
    /\ entry.size = ToString(Len(bytes))

StagedFiles(name) ==
    {i \in 1..Len(tree) : tree[i].kind = "file" /\ ArcName(tree[i].path, Sep(host)) = name}

\* C2: every manifest line but the last records the sha256 digest and the
\* length of the bytes of the archive member of that name, and the last line
\* is the self-entry RECORD,, with empty digest and length.  From the moment
\* the manifest is written until the archive is complete, the staged files
\* still have the bytes the manifest was computed from.
C2_ManifestVerifies ==
    /\ pc \in {"zipopen", "zipwrite"} =>
           \A i \in 1..Len(record_content) - 1 :
               /\ StagedFiles(record_content[i].path) # {}
               /\ \A n \in StagedFiles(record_content[i].path) :
                      Verifies(record_content[i], tree[n].content.bytes)
    /\ pc = "returned" =>
           /\ Manifest # <<>>
           /\ Manifest[Len(Manifest)] = SelfEntry
           /\ \A i \in 1..Len(Manifest) - 1 :
                  /\ Cardinality(Members(Manifest[i].path)) = 1
                  /\ \A m \in Members(Manifest[i].path) :
                         Verifies(Manifest[i], archive[m].content.bytes)

\* A native build has returned a wheel whose library has three bytes and whose
\* py.typed has none.
C2_Witness ==
    /\ pc = "returned"
    /\ ~editable
    /\ \E i \in 1..Len(Manifest) - 1 : Manifest[i].size = "3"
    /\ \E i \in 1..Len(Manifest) - 1 : Manifest[i].size = "0"

\* C3: the staging directory is acquired before anything is staged, and it no
\* longer exists once control is back with the caller, however the build
\* ended: with a wheel, with no compiler found, with a failed compilation,
\* with the compiler's output missing, or with an I/O error.
C3_TempScoped ==
    /\ tree # <<>> => tempAcquired /\ tempExists
    /\ pc \in {"returned", "raised"} => ~tempExists

\* A build whose compiler ran and failed has raised, after the staging
\* directory had been made.
C3_Witness ==
    /\ pc = "raised"
    /\ error = "compile"
    /\ tempAcquired
    /\ compilerRuns = 1

OutsideDistInfo ==
    {i \in 1..Len(archive) : ~StartsWith(archive[i].name, DistInfoName \o <<"/">>)}

\* C4: an editable build never runs the compiler and never scans, and the
\* wheel it returns has, outside the dist-info directory, exactly one file:
\* {module_name}.pth, whose content is the path of the project directory.
C4_EditableOnlyRedirect ==
    editable =>
        /\ compilerRuns = 0
        /\ scannerRuns = 0
        /\ pc = "returned" =>
               /\ Cardinality(OutsideDistInfo) = 1
               /\ \A i \in OutsideDistInfo :
                      /\ archive[i].name = module_name \o <<".pth">>
                      /\ archive[i].content.bytes = Utf8(project_dir)

\* An editable build of a project that names its module has returned its wheel.
C4_Witness ==
    /\ editable
    /\ pc = "returned"
    /\ config.module = <<"core">>
    /\ Len(project_dir) = 4
    /\ Len(archive) = 5

(***************************************************************************)
(* What the lines of a source declare, read off the lines themselves.      *)
(***************************************************************************)
\* The last line before line i that is not blank, 0 when there is none.
RECURSIVE LastNonBlank(_, _)
LastNonBlank(lines, i) ==
    IF i = 0 THEN 0
    ELSE IF lines[i].kind # "blank" THEN i
    ELSE LastNonBlank(lines, i - 1)

\* The first line of the run of doc-comment lines that ends at line j.
RECURSIVE DocRunStart(_, _)
DocRunStart(lines, j) ==
    IF j > 1 /\ lines[j - 1].kind = "doc" THEN DocRunStart(lines, j - 1) ELSE j

\* The doc text of the declaration on line i: its doc-comment lines, joined.
DeclaredDoc(lines, i) ==
    LET j == LastNonBlank(lines, i - 1)
    IN  IF j = 0 \/ lines[j].kind # "doc" THEN <<>>
        ELSE LET k == DocRunStart(lines, j)
             IN  Join([n \in 1..(j - k + 1) |-> lines[k + n - 1].text], "\n")

\* The parameters of a declaration that are neither comptime nor variadic.
DeclaredParams(items) ==
    LET IsPlain(it) == it.q = "plain"
        Pair(it) == <<it.name, it.type>>
        kept == SelectSeq(items, IsPlain)
    IN  [i \in 1..Len(kept) |-> Pair(kept[i])]

DeclIndexes(lines) ==
    LET IsDecl(i) == lines[i].kind = "decl"
    IN  SelectSeq([i \in 1..Len(lines) |-> i], IsDecl)

\* One record per declaration, in source order.
Declared(lines) ==
    LET idx == DeclIndexes(lines)
    IN  [n \in 1..Len(idx) |->
            [name |-> lines[idx[n]].name,
             doc |-> DeclaredDoc(lines, idx[n]),
             params |-> DeclaredParams(lines[idx[n]].items)]]

Found(records) ==
    [n \in 1..Len(records) |->
        [name |-> records[n].name, doc |-> records[n].doc,
         params |-> records[n].params]]

(***************************************************************************)
(* C5.  For a source with K well-formed export declarations among other    *)
(* text, parse_zig_exports returns exactly K records in source order, each *)
(* with the declaration's name, doc text and ordered parameters, the       *)
(* comptime-qualified and variadic parameters left out.                    *)
(* The code breaks it: see C5_ExportsAsDeclared's trace.                   *)
(***************************************************************************)
C5_ExportsAsDeclared ==
    parseDone => Found(parsed) = Declared(srcLines)

(***************************************************************************)
(* C7.  parse_zig_type returns one descriptor for every spelling; a        *)
(* spelling in the table gets its table descriptor and every spelling not  *)
(* in the table gets ctypes.c_void_p.  As stated, of the spelling handed   *)
(* in, it fails on a table spelling with white space around it.            *)
(***************************************************************************)
C7_TableOrVoidPointer_AsStated ==
    typeOut # "unset" =>
        /\ typeOut \in Descriptors
        /\ typeIn \in DOMAIN ZIG_TO_CTYPES => typeOut = ZIG_TO_CTYPES[typeIn]
        /\ typeIn \notin DOMAIN ZIG_TO_CTYPES => typeOut = "ctypes.c_void_p"

(***************************************************************************)
(* C7, amended.  parse_zig_type returns one descriptor for every spelling; *)
(* a spelling that is in the table once the white space around it is       *)
(* stripped gets that table descriptor, and every other spelling gets      *)
(* ctypes.c_void_p.                                                        *)
(***************************************************************************)
C7_TableOrVoidPointer ==
    typeOut # "unset" =>
        /\ typeOut \in Descriptors
        /\ Strip(typeIn) \in DOMAIN ZIG_TO_CTYPES
              => typeOut = ZIG_TO_CTYPES[Strip(typeIn)]
        /\ Strip(typeIn) \notin DOMAIN ZIG_TO_CTYPES
              => typeOut = "ctypes.c_void_p"

\* A table spelling with white space before it has been mapped.
C7_Witness ==
    /\ typeIn = <<" ", "u", "8">>
    /\ typeOut = "ctypes.c_uint8"

(***************************************************************************)
(* C8.  For an optional spelling ?T that is not in the table,              *)
(* parse_zig_type(?T) is ctypes.c_void_p when T is pointer-shaped and is   *)
(* parse_zig_type(T) otherwise.  The code breaks the second half.          *)
(***************************************************************************)
IsOptional(s) == StartsWith(Strip(s), <<"?">>) /\ Strip(s) \notin DOMAIN ZIG_TO_CTYPES

Inner(s) == Strip(Tail(Strip(s)))

C8_OptionalMapsInner_AsStated ==
    (typeOut # "unset" /\ IsOptional(typeIn)) =>
        typeOut = IF PointerShaped(Inner(typeIn)) THEN "ctypes.c_void_p"
                  ELSE parse_zig_type(Inner(typeIn))

(***************************************************************************)
(* C8, amended.  For an optional spelling ?T that is not in the table,     *)
(* parse_zig_type(?T) is ctypes.c_void_p, whether T is pointer-shaped or   *)
(* not: the inner spelling is never mapped.                                *)
(***************************************************************************)
C8_OptionalIsVoidPointer ==
    (typeOut # "unset" /\ IsOptional(typeIn)) => typeOut = "ctypes.c_void_p"

\* An optional of a table spelling has been mapped.
C8_Witness ==
    /\ typeIn = <<"?", "i", "3", "2">>
    /\ typeOut = "ctypes.c_void_p"

(***************************************************************************)
(* C6.  scan_zig_sources never raises because of a source file: it returns *)
(* the records of exactly the readable files, whole and in traversal       *)
(* order, with no record of a file that failed to be read or decoded.      *)
(***************************************************************************)
\* The records of the readable files among the first n, in order.
RECURSIVE ReadableRecords(_, _)
ReadableRecords(fs, n) ==
    IF n = 0 THEN <<>>
    ELSE ReadableRecords(fs, n - 1)
         \o (IF fs[n].status = "ok" THEN parse_zig_exports(Render(fs[n].lines))
             ELSE <<>>)

C6_ScanSkipsFailingFiles ==
    /\ scanPc # "raised"
    /\ scanPc \in {"loop", "returned"} =>
          all_functions = ReadableRecords(files, scanIdx)
    /\ scanPc = "returned" => scanIdx = Len(files)

\* The scan has returned the records of a readable file that comes after a
\* file that could not be decoded, though that file's text declares an export.
C6_Witness ==
    /\ scanPc = "returned"
    /\ Len(files) >= 2
    /\ files[1].status = "undecodable" /\ files[1].lines = <<DeclAdd>>
    /\ files[2].status = "ok"
    /\ Len(all_functions) = 1 /\ all_functions[1].name = <<"init">>

(***************************************************************************)
(* C9.  For every list of ExportedFunction records, duplicates of a name   *)
(* included, the generated module's __all__ holds exactly the records'     *)
(* names in scan order, there is exactly one wrapper per record in the     *)
(* same order, and each wrapper's parameter list, call arguments and       *)
(* argtypes follow the record's params in order: argtypes[i] is            *)
(* parse_zig_type of the i-th raw type, restype that of the return type.   *)
(***************************************************************************)
LinesOf(lines, kind) ==
    LET IsKind(l) == l.k = kind
    IN  SelectSeq(lines, IsKind)

\* The lines from the n-th def line up to the next def line (or the end).
WrapperSpan(lines, n) ==
    LET IsDef(i) == lines[i].k = "def"
        defs == SelectSeq([i \in 1..Len(lines) |-> i], IsDef)
        last == IF n < Len(defs) THEN defs[n + 1] - 1 ELSE Len(lines)
    IN  SubSeq(lines, defs[n], last)

C9_BindingsFollowRecords ==
    genDone =>
        /\ LinesOf(genLines, "all_entry")
              = [i \in 1..Len(functions) |->
                    GenLine("all_entry", functions[i].name, <<>>, <<>>, <<>>, 1)]
        /\ Len(LinesOf(genLines, "def")) = Len(functions)
        /\ \A n \in 1..Len(functions) :
              LET f == functions[n]
                  w == WrapperSpan(genLines, n)
                  names == [i \in 1..Len(f.params) |-> f.params[i][1]]
              IN  /\ w[1].name = f.name
                  /\ w[1].args = names
                  /\ Len(LinesOf(w, "call")) = 1
                  /\ LinesOf(w, "call")[1].args = names
                  /\ Len(LinesOf(w, "argtypes")) = 1
                  /\ LinesOf(w, "argtypes")[1].types
                        = [i \in 1..Len(f.params) |-> parse_zig_type(f.params[i][2])]
                  /\ Len(LinesOf(w, "restype")) = 1
                  /\ LinesOf(w, "restype")[1].types = <<parse_zig_type(f.return_type)>>

\* The module has been generated for two records named add with different
\* parameters: __all__ names add twice and the first wrapper is add(a, b)
\* with two 32-bit signed arguments and a 32-bit signed result.
C9_Witness ==
    /\ genDone
    /\ Len(functions) = 2
    /\ functions[1].name = <<"add">> /\ functions[2].name = <<"add">>
    /\ functions[1] # functions[2]
    /\ functions[1].return_type = T_i32
    /\ Len(LinesOf(genLines, "all_entry")) = 2
    /\ WrapperSpan(genLines, 1)[1].args = <<<<"a">>, <<"b">>>>
    /\ LinesOf(WrapperSpan(genLines, 1), "argtypes")[1].types
          = <<"ctypes.c_int32", "ctypes.c_int32">>
    /\ LinesOf(WrapperSpan(genLines, 1), "restype")[1].types = <<"ctypes.c_int32">>

(***************************************************************************)
(* C10.  In the generated module, in one thread: _lib starts unset; a load *)
(* is attempted only while it is unset; once a load has succeeded _lib is  *)
(* never reset or replaced and nothing loads again; a failed eager load at *)
(* import raises nothing to the importer and leaves _lib unset, and the    *)
(* first wrapper call then attempts the load again.                        *)
(***************************************************************************)
Attempted == Len(loadLog') = Len(loadLog) + 1

C10_LoadStep ==
    /\ pcL = "import" => lib = 0 /\ loadLog = <<>>
    /\ Len(loadLog') # Len(loadLog) => (Attempted /\ lib = 0)
    /\ lib # 0 => (lib' = lib /\ loadLog' = loadLog)
    /\ lib' # 0 => (loadLog'[lib'] = "loaded")
    /\ ~importRaised'
    /\ (pcL = "import" /\ loadLog'[Len(loadLog')] # "loaded") => lib' = 0
    /\ (pcL = "ready" /\ lib = 0) => Attempted

C10_LazyLoadOnce == [][C10_LoadStep]_vars

\* The eager load failed, the first wrapper call loaded the library and the
\* second call used the handle it had: two attempts for two calls and an import.
C10_Witness ==
    /\ pcL = "ready"
    /\ ~importRaised
    /\ calls = 2
    /\ loadLog = <<"not_found", "loaded">>
    /\ lib = 2
    /\ lastCall = "returned"

\* What happened around the native call, in order.
ScopeEvents ==
    LET IsScopeEvent(e) == e \in {"enter", "native", "exit"}
    IN  SelectSeq(wTrace, IsScopeEvent)

\* C11: a wrapper makes the native call inside the _release_gil block exactly
\* when gil_release is set and the function's release_gil is set; then the
\* block is entered before the call and left after it, whether the call
\* returns or raises, and what the call raised reaches the caller.
C11_CallInsideReleaseScope ==
    /\ wPc \in {"returned", "raised"} /\ ScopeEvents # <<>> =>
           /\ ScopeEvents = IF wGil /\ wFunc.release_gil
                            THEN <<"enter", "native", "exit">>
                            ELSE <<"native">>
           /\ wScope = 0
           /\ wPc = Ended(wNative)
    /\ wPc \in {"run", "unwind"} /\ ScopeEvents # <<>> /\ ScopeEvents[Len(ScopeEvents)] = "native" =>
           (wScope = 1) = (wGil /\ wFunc.release_gil)

\* The native function raised inside the block, the block was left, and the
\* caller got the exception.
C11_Witness ==
    /\ wPc = "raised"
    /\ wNative = "raises"
    /\ wGil /\ wFunc.release_gil
    /\ ScopeEvents = <<"enter", "native", "exit">>

\* C12: compile_zig returns the output path only if the compiler process
\* exited with code 0 and the output file exists; on another exit code it
\* raises the compilation error, which carries the captured standard error,
\* or the standard output when the standard error is empty; on exit code 0
\* with no output file it raises the file-not-found error.
C12_CompileOutcome ==
    cResult.outcome # "unset" =>
        /\ cPath # <<>> => cEnv.returncode = 0 /\ cEnv.output # <<>>
        /\ cResult.ran /\ cEnv.returncode # 0 =>
               /\ cResult.outcome = "compile"
               /\ cPath = <<>>
               /\ cResult.message =
                      <<"Zig compilation failed:", "\n">>
                      \o (IF cEnv.stderr = <<>> THEN cEnv.stdout ELSE cEnv.stderr)
        /\ cResult.ran /\ cEnv.returncode = 0 /\ cEnv.output = <<>> =>
               cResult.outcome = "integrity" /\ cPath = <<>>
        /\ cEnv.zig /\ cEnv.listing # <<>> => cResult.ran

\* The compiler was killed, having written to both streams; the error carries
\* the standard error.
C12_Witness ==
    /\ cResult.outcome # "unset"
    /\ cResult.outcome = "compile"
    /\ cEnv.returncode = -9
    /\ cEnv.stderr # <<>> /\ cEnv.stdout # <<>>
    /\ cResult.message = <<"Zig compilation failed:", "\n", "error">>

\* The conventional names, in the order they are tried.
Conventional(module) == <<<<"lib.zig">>, <<"main.zig">>, module \o <<".zig">>>>

\* C17: the main file is the first of lib.zig, main.zig, {module_name}.zig
\* that is in the source directory; when none of them is, the first *.zig
\* file found directly in it; and when there is no *.zig file, compile_zig
\* raises without having started a compiler process.
C17_MainFileByPriority ==
    cResult.outcome # "unset" =>
        /\ cResult.ran =>
               LET names == Conventional(cModule)
                   present == {i \in 1..Len(names) : InSeq(names[i], cEnv.listing)}
               IN  IF present # {}
                   THEN \E i \in present :
                            /\ \A j \in present : i <= j
                            /\ cResult.main_file = names[i]
                   ELSE cResult.main_file = cEnv.listing[1]
        /\ cEnv.listing = <<>> =>
               /\ ~cResult.ran
               /\ cResult.outcome \in {"no_source", "toolchain"}
               /\ cPath = <<>>
        /\ cEnv.zig /\ cEnv.listing # <<>> => cResult.ran

\* The directory lists a.zig before the module's own file: the module's file
\* is compiled.
C17_Witness ==
    /\ cResult.outcome # "unset"
    /\ cResult.ran
    /\ cModule = <<"core">>
    /\ cEnv.listing = <<<<"a.zig">>, <<"core", ".zig">>>>
    /\ cResult.main_file = <<"core", ".zig">>

\* The tag as one text: its pieces run together.
RECURSIVE Concat(_)
Concat(pieces) == IF pieces = <<>> THEN "" ELSE Head(pieces) \o Concat(Tail(pieces))

\* The pairs of system and machine that have a tag of their own, the 32-bit
\* x86 machines on Windows among them.
TagTable ==
    (<<"windows", "amd64">> :> "win_amd64") @@ (<<"windows", "x86_64">> :> "win_amd64")
    @@ (<<"windows", "arm64">> :> "win_arm64") @@ (<<"windows", "x86">> :> "win32")
    @@ (<<"windows", "i686">> :> "win32")
    @@ (<<"darwin", "arm64">> :> "macosx_11_0_arm64")
    @@ (<<"darwin", "x86_64">> :> "macosx_10_9_x86_64")
    @@ (<<"linux", "x86_64">> :> "manylinux2014_x86_64")
    @@ (<<"linux", "aarch64">> :> "manylinux2014_aarch64")

\* C13: get_platform_tag returns the table's tag for a pair of system and
\* machine that the table has (manylinux2014_x86_64 for Linux on x86_64), and
\* for every other pair the lower-cased system, an underscore and the
\* lower-cased machine.
C13_TableOrFallback ==
    pTag # <<>> =>
        LET pair == <<Lower(pSystem), Lower(pMachine)>>
        IN  Concat(pTag) = IF pair \in DOMAIN TagTable THEN TagTable[pair]
                           ELSE Lower(pSystem) \o "_" \o Lower(pMachine)

\* The lines of the METADATA text that begin with the given field name, each
\* without it.
FieldValues(field) ==
    LET lines == Split(metaOut, "\n")
        HasField(l) == l # <<>> /\ l[1] = field
        kept == SelectSeq(lines, HasField)
    IN  [i \in 1..Len(kept) |-> Tail(kept[i])]

\* C14: the METADATA text has one Classifier line for each classifier given,
\* one Requires-Dist line for each dependency given and one Project-URL line
\* "label, value" for each url given, each group in the order given; none is
\* added, dropped or moved.
C14_OneLinePerEntry ==
    metaOut # <<>> =>
        /\ FieldValues("Classifier: ") =
               [i \in 1..Len(metadata.classifiers) |-> <<metadata.classifiers[i]>>]
        /\ FieldValues("Requires-Dist: ") =
               [i \in 1..Len(metadata.dependencies) |-> <<metadata.dependencies[i]>>]
        /\ FieldValues("Project-URL: ") =
               [i \in 1..Len(metadata.urls) |->
                   <<metadata.urls[i][1], ", ", metadata.urls[i][2]>>]

\* A project gave two classifiers, the same dependency twice and two urls,
\* Docs before Home.
C14_Witness ==
    /\ metaOut # <<>>
    /\ metadata.classifiers = <<"Topic :: B", "Topic :: A">>
    /\ metadata.dependencies = <<"cffi>=1", "cffi>=1">>
    /\ Len(metadata.urls) = 2 /\ metadata.urls[1][1] = "Docs"
    /\ metadata.authors # <<>>
    /\ FieldValues("Project-URL: ") = <<<<"Docs", ", ", "https://d">>, <<"Home", ", ", "https://h">>>>

\* What the line of an author says after the field name: "name <email>" for
\* an author with an email, the name alone for one without.
AuthorText(author) ==
    IF author.email # "" THEN <<author.name, " <", author.email, ">">>
    ELSE <<author.name>>

\* C18: the METADATA text has one line for each author given, in the order
\* given, "name <email>" for an author with an email and the name alone
\* otherwise; no author is left out.
C18_OneLinePerAuthor ==
    metaOut # <<>> =>
        LET lines == Split(metaOut, "\n")
            IsAuthor(l) == l # <<>> /\ l[1] \in {"Author: ", "Author-Email: "}
            kept == SelectSeq(lines, IsAuthor)
        IN  [i \in 1..Len(kept) |-> Tail(kept[i])] =
                [i \in 1..Len(metadata.authors) |-> AuthorText(metadata.authors[i])]

\* How many of the loads attempted so far have loaded the library.
Loads(log) == Cardinality({i \in 1..Len(log) : log[i] = "loaded"})

C15_LoadStep ==
    /\ Loads(tLog') <= 1
    /\ tLib # 0 => tLib' = tLib

\* C15: when threads call _load_library concurrently while _lib is unset, the
\* library is loaded at most once, and _lib, once set, is not set again by
\* another load.
C15_LoadedOnceAcrossThreads == [][C15_LoadStep]_vars

\* The errors raised before anything is archived: in reading the
\* configuration, finding the compiler, finding the sources, compiling,
\* checking the output, scanning.
FatalBeforeArchive == {"config", "toolchain", "no_source", "compile", "integrity", "scan"}

\* C16: a build that ends with a fatal error from reading the configuration,
\* finding the compiler, compiling, checking the output, scanning,
\* generating, or staging the metadata and the manifest has not created or
\* changed the archive: the archive is opened for writing only once the
\* manifest has been written to the staging directory.
C16_NoArchiveBeforeManifest ==
    /\ archiveOpened => record_content # <<>>
    /\ archive # <<>> => archiveOpened
    /\ pc = "raised" /\ (error \in FatalBeforeArchive \/ record_content = <<>>) =>
           ~archiveOpened /\ archive = <<>>

\* The compiler ran and left no output file: the build raised, with the
\* staging directory made and gone again and no archive opened.
C16_Witness ==
    /\ pc = "raised"
    /\ error = "integrity"
    /\ compilerRuns = 1
    /\ tempAcquired
    /\ ~archiveOpened

====
